---- MODULE Spec2Model ----
(***************************************************************************)
(* Model of the decision-and-execution core of PokeNadir/tradingbot:       *)
(*   backend/trading/portfolio.py      Portfolio (the ledger)              *)
(*   backend/trading/risk_manager.py   RiskManager (sizing, pre-trade gate)*)
(*   backend/trading/paper_trader.py   PaperTrader (execution simulator)   *)
(*   backend/indicators/signals.py     SignalGenerator (state machine)     *)
(*                                                                         *)
(* Number representation (Python floats are modelled in fixed point):      *)
(*   prices  : integer cents             (1 unit  = 0.01 quote)            *)
(*   sizes   : integer thousandths       (1 unit  = 0.001 base)            *)
(*   money   : integer ten-thousandths   (1 unit  = 0.0001 quote)          *)
(*   ratios  : integer parts per million (1 unit  = 0.000001)              *)
(*   time    : integer minutes since construction                          *)
(* so that price * size / 10 is money, and round(x, 2) on money is a real  *)
(* rounding to a multiple of 100 units.                                    *)
(***************************************************************************)
EXTENDS Integers, Sequences, FiniteSets, TLC

VARIABLES
    portfolio,      \* Portfolio: capital, positions, closed_trades, stats, peak_equity, current_drawdown
    risk,           \* RiskManager: daily_pnl, consecutive_losses, pause_until, trade_history
    trader,         \* PaperTrader: signal_history (its length), next position id
    sg,             \* SignalGenerator: states, cooldown_bars, armed_signals, position_info
    now,            \* datetime.now(), in minutes
    last,           \* the last call made and what it returned
    hist            \* history: when the current pause began, whether a trade closed since,
                    \* update_cooldown calls since each symbol's exit

vars == <<portfolio, risk, trader, sg, now, last, hist>>

None == "None"          \* a missing string, a call that returns no status
NoTime == -1            \* pause_until = None
NoId == 0               \* no position id

-----------------------------------------------------------------------------
(* Bounds of the model *)

MaxSignals == 2        \* signals execute_signal records in a trader run
MaxGateSignals == 5    \* signals execute_signal records in a gate run
MaxLedgerSignals == 2  \* signals execute_signal records in a book-keeping run
MaxScenarioSignals == 2  \* signals execute_signal records in a lifecycle run
MaxTrades == 5         \* trades update_trade_result records in a risk run
MaxExposureSignals == 2  \* signals execute_signal records in an exposure run
MaxNow == 15           \* last minute the clock reaches

(* Program constants: the defaults the code falls back to.  Fractions are   *)
(* in parts per million.                                                   *)

InitialCapitalQuote == 10000      \* paper_trading.initial_capital
MaxOpenPositions == 3             \* risk_management.max_open_positions
MaxRiskPerTrade == 10000          \* max_risk_per_trade = 0.01
MaxRiskTotal == 60000             \* max_risk_total = 0.06
KellyFraction == 250000           \* kelly_fraction = 0.25
DefaultWinRate == 500000          \* win_rate = 0.5
DefaultWinLossRatio == 2000000    \* avg_win_loss_ratio = 2.0
DailyLossLimit == 30000           \* drawdown.daily_loss_limit = 0.03
ConsecutiveLossPause == 3         \* drawdown.consecutive_loss_pause
PauseDurationMinutes == 15        \* drawdown.pause_duration_minutes
CommissionPercent == 1000         \* costs.commission_percent = 0.001
Slippage == 100                   \* costs.slippage.liquid_majors = 0.0001
SimulatedSpread == 100            \* spread = 0.0001 in execute_signal
MaxSpread == 2000                 \* max_spread = 0.002

Symbols == {"BTC/USDT", "ETH/USDT"}

-----------------------------------------------------------------------------
(* Fixed-point arithmetic *)

Abs(x) == IF x < 0 THEN -x ELSE x
Min(a, b) == IF a <= b THEN a ELSE b
Max(a, b) == IF a >= b THEN a ELSE b

\* a / b to the nearest integer (b > 0), ties upward
RoundDiv(a, b) == (2 * a + b) \div (2 * b)

\* floor(a * 10^digits / b) for 0 <= a, 0 < b, by long division
RECURSIVE LongDiv(_, _, _)
LongDiv(a, b, digits) ==
    IF digits = 0 THEN a \div b
    ELSE (a \div b) * (10 ^ digits) + LongDiv((a % b) * 10, b, digits - 1)

\* a / b as parts per million (b > 0)
Ratio(a, b) == IF a >= 0 THEN LongDiv(a, b, 6) ELSE -LongDiv(-a, b, 6)

\* Python round(x, 2) on money: nearest multiple of 100 units, ties to even
Round2(m) ==
    LET q == m \div 100
        r == m % 100
    IN  IF r < 50 THEN q * 100
        ELSE IF r > 50 THEN (q + 1) * 100
        ELSE IF q % 2 = 0 THEN q * 100 ELSE (q + 1) * 100

\* price (cents) * size (thousandths) as money
Notional(price, size) == RoundDiv(price * size, 10)

\* x * f / 10^6 for a fraction f in parts per million (f <= 100000)
MulPpm(x, f) == RoundDiv((x \div 10000) * f, 100) + RoundDiv((x % 10000) * f, 1000000)

\* the initial capital as money
InitialCapital == InitialCapitalQuote * 10000

-----------------------------------------------------------------------------
(* Portfolio (backend/trading/portfolio.py).  p is the Portfolio object:    *)
(*   capital, positions (id -> Position), closed_trades, stats,            *)
(*   peak_equity, current_drawdown.                                        *)
(* Position.entry_time, strategy and the trade's time stamps are left out: *)
(* nothing reads them back.                                                *)

PortfolioStats ==
    [total_trades |-> 0, winning_trades |-> 0, losing_trades |-> 0, win_rate |-> 0,
     total_pnl |-> 0, avg_win |-> 0, avg_loss |-> 0, profit_factor |-> 0,
     max_drawdown |-> 0, best_trade |-> 0, worst_trade |-> 0]

PortfolioInit ==
    [capital |-> InitialCapital,
     positions |-> <<>>,
     closed_trades |-> <<>>,
     stats |-> PortfolioStats,
     peak_equity |-> InitialCapital,
     current_drawdown |-> 0]

\* sum of f[k] over the keys in S
RECURSIVE SumOver(_, _)
SumOver(f, S) ==
    IF S = {} THEN 0
    ELSE LET k == CHOOSE x \in S : TRUE IN f[k] + SumOver(f, S \ {k})

GetOpenPnl(p) ==
    SumOver([i \in DOMAIN p.positions |-> p.positions[i].pnl], DOMAIN p.positions)

\* get_equity written without the open positions: the variant that reports capital
GetEquityCapitalOnly(p) == p.capital

GetEquity(p) == p.capital + GetOpenPnl(p)

\* total_exposure / capital, 0 when capital <= 0
GetExposure(p) ==
    IF p.capital <= 0 THEN 0
    ELSE Ratio(SumOver([i \in DOMAIN p.positions |->
                          Notional(p.positions[i].current_price, p.positions[i].size)],
                       DOMAIN p.positions),
               p.capital)

\* f with key k bound to v (dict assignment)
Put(f, k, v) == [x \in (DOMAIN f) \cup {k} |-> IF x = k THEN v ELSE f[x]]

\* f without key k (del f[k])
Del(f, k) == [x \in (DOMAIN f) \ {k} |-> f[x]]

\* open_position written to pay for the position out of capital
OpenPositionPaying(p, position_id, symbol, direction, entry_price, size, stop_loss, take_profit) ==
    [p EXCEPT !.capital = p.capital - Notional(entry_price, size),
              !.positions =
        Put(p.positions, position_id,
            [id |-> position_id, symbol |-> symbol, direction |-> direction,
             entry_price |-> entry_price, current_price |-> entry_price,
             size |-> size, stop_loss |-> stop_loss, take_profit |-> take_profit,
             pnl |-> 0, pnl_percent |-> 0])]

OpenPosition(p, position_id, symbol, direction, entry_price, size, stop_loss, take_profit) ==
    [p EXCEPT !.positions =
        Put(p.positions, position_id,
            [id |-> position_id, symbol |-> symbol, direction |-> direction,
             entry_price |-> entry_price, current_price |-> entry_price,
             size |-> size, stop_loss |-> stop_loss, take_profit |-> take_profit,
             pnl |-> 0, pnl_percent |-> 0])]

\* (exit - entry) * size for a long, (entry - exit) * size otherwise
GrossPnl(pos, price) ==
    IF pos.direction = "long"
    THEN Notional(price - pos.entry_price, pos.size)
    ELSE Notional(pos.entry_price - price, pos.size)

UpdatePositionPrice(p, position_id, current_price) ==
    IF position_id \notin DOMAIN p.positions THEN p
    ELSE LET pos == p.positions[position_id]
             pnl == GrossPnl(pos, current_price)
         IN  [p EXCEPT !.positions[position_id] =
                [pos EXCEPT !.current_price = current_price,
                            !.pnl = pnl,
                            !.pnl_percent = Ratio(pnl, Notional(pos.entry_price, pos.size))]]

\* Portfolio._update_stats, on the stats record st with the drawdown dd just computed
UpdateStats(st, pnl, dd) ==
    LET won == pnl > 0
        w == st.winning_trades + (IF won THEN 1 ELSE 0)
        l == st.losing_trades + (IF won THEN 0 ELSE 1)
        total == st.total_trades + 1
        avg_win == IF won THEN RoundDiv(st.avg_win * (w - 1) + pnl, w) ELSE st.avg_win
        avg_loss == IF won THEN st.avg_loss ELSE RoundDiv(st.avg_loss * (l - 1) + Abs(pnl), l)
    IN  [total_trades |-> total,
         winning_trades |-> w,
         losing_trades |-> l,
         win_rate |-> Ratio(w, total),
         total_pnl |-> st.total_pnl + pnl,
         avg_win |-> avg_win,
         avg_loss |-> avg_loss,
         profit_factor |-> IF avg_loss > 0 THEN Ratio(avg_win, avg_loss) ELSE 0,
         max_drawdown |-> IF dd > st.max_drawdown THEN dd ELSE st.max_drawdown,
         best_trade |-> IF won /\ pnl > st.best_trade THEN pnl ELSE st.best_trade,
         worst_trade |-> IF ~won /\ pnl < st.worst_trade THEN pnl ELSE st.worst_trade]

ErrorResult == [error |-> "Position not found"]

\* close_position written without "del self.positions[position_id]"
ClosePositionKeeping(p, position_id, exit_price, fees) ==
    IF position_id \notin DOMAIN p.positions
    THEN [portfolio |-> p, result |-> ErrorResult]
    ELSE LET pos == p.positions[position_id]
             net_pnl == GrossPnl(pos, exit_price) - fees
             closed_trade ==
                [id |-> position_id, symbol |-> pos.symbol, direction |-> pos.direction,
                 entry_price |-> pos.entry_price, exit_price |-> exit_price,
                 size |-> pos.size,
                 gross_pnl |-> Round2(net_pnl + fees), fees |-> Round2(fees),
                 net_pnl |-> Round2(net_pnl),
                 pnl_percent |-> Round2(Ratio(net_pnl, Notional(pos.entry_price, pos.size)))]
         IN  [portfolio |->
                [p EXCEPT !.capital = p.capital + net_pnl,
                          !.closed_trades = Append(p.closed_trades, closed_trade)],
              result |-> closed_trade,
              net_pnl |-> net_pnl]

\* Portfolio.close_position: the new Portfolio and the dict returned
ClosePosition(p, position_id, exit_price, fees) ==
    IF position_id \notin DOMAIN p.positions
    THEN [portfolio |-> p, result |-> ErrorResult]
    ELSE LET pos == p.positions[position_id]
             gross_pnl == GrossPnl(pos, exit_price)
             net_pnl == gross_pnl - fees
             p1 == [p EXCEPT !.capital = p.capital + net_pnl]
             equity == GetEquity(p1)
             peak == IF equity > p1.peak_equity THEN equity ELSE p1.peak_equity
             dd == IF peak > 0 THEN Ratio(peak - equity, peak) ELSE 0
             closed_trade ==
                [id |-> position_id, symbol |-> pos.symbol, direction |-> pos.direction,
                 entry_price |-> pos.entry_price, exit_price |-> exit_price,
                 size |-> pos.size,
                 gross_pnl |-> Round2(gross_pnl), fees |-> Round2(fees),
                 net_pnl |-> Round2(net_pnl),
                 pnl_percent |-> Round2(Ratio(net_pnl, Notional(pos.entry_price, pos.size)))]
         IN  [portfolio |->
                [capital |-> p1.capital,
                 positions |-> Del(p.positions, position_id),
                 closed_trades |-> Append(p.closed_trades, closed_trade),
                 stats |-> UpdateStats(p.stats, net_pnl, dd),
                 peak_equity |-> peak,
                 current_drawdown |-> dd],
              result |-> closed_trade,
              net_pnl |-> net_pnl]

\* check_stops written with strict comparisons
StopReasonStrict(pos, current_price) ==
    IF pos.direction = "long"
    THEN IF current_price < pos.stop_loss THEN "stop_loss"
         ELSE IF current_price > pos.take_profit THEN "take_profit"
         ELSE None
    ELSE IF current_price > pos.stop_loss THEN "stop_loss"
         ELSE IF current_price < pos.take_profit THEN "take_profit"
         ELSE None

\* the exit reason check_stops gives a position at a price, None when it stays open
StopReason(pos, current_price) ==
    IF pos.direction = "long"
    THEN IF current_price <= pos.stop_loss THEN "stop_loss"
         ELSE IF current_price >= pos.take_profit THEN "take_profit"
         ELSE None
    ELSE IF current_price >= pos.stop_loss THEN "stop_loss"
         ELSE IF current_price <= pos.take_profit THEN "take_profit"
         ELSE None

\* the ids of a dict in insertion order: ids are handed out in increasing order
RECURSIVE KeysInOrder(_)
KeysInOrder(S) ==
    IF S = {} THEN <<>>
    ELSE LET k == CHOOSE x \in S : \A y \in S : x <= y
         IN  <<k>> \o KeysInOrder(S \ {k})

\* Portfolio.check_stops over the ids still to visit: re-prices every position on
\* the symbol and collects the ones whose stop or target is reached
RECURSIVE CheckStopsFrom(_, _, _, _)
CheckStopsFrom(p, ids, symbol, current_price) ==
    IF ids = <<>> THEN [portfolio |-> p, positions_to_close |-> <<>>]
    ELSE LET pos_id == Head(ids)
         IN  IF p.positions[pos_id].symbol # symbol
             THEN CheckStopsFrom(p, Tail(ids), symbol, current_price)
             ELSE LET p1 == UpdatePositionPrice(p, pos_id, current_price)
                      reason == StopReason(p1.positions[pos_id], current_price)
                      rest == CheckStopsFrom(p1, Tail(ids), symbol, current_price)
                  IN  [portfolio |-> rest.portfolio,
                       positions_to_close |->
                          IF reason = None THEN rest.positions_to_close
                          ELSE <<[id |-> pos_id, reason |-> reason, price |-> current_price]>>
                               \o rest.positions_to_close]

CheckStops(p, symbol, current_price) ==
    CheckStopsFrom(p, KeysInOrder(DOMAIN p.positions), symbol, current_price)

\* Portfolio.get_summary: the figures it reports, rounded as it rounds them
GetSummary(p) ==
    [capital |-> Round2(p.capital),
     equity |-> Round2(GetEquity(p)),
     open_pnl |-> Round2(GetOpenPnl(p)),
     open_positions |-> Cardinality(DOMAIN p.positions),
     exposure |-> Round2(GetExposure(p)),
     current_drawdown |-> Round2(p.current_drawdown)]

-----------------------------------------------------------------------------
(* RiskManager (backend/trading/risk_manager.py).  r is the RiskManager:    *)
(*   daily_pnl, consecutive_losses, pause_until, trade_history.            *)

RiskInit ==
    [daily_pnl |-> 0, consecutive_losses |-> 0, pause_until |-> NoTime, trade_history |-> <<>>,
     returns_history |-> <<>>, wins |-> 0, losses |-> 0,
     total_win_amount |-> 0, total_loss_amount |-> 0]

ReturnsHistoryCap == 252          \* returns kept for the VaR

\* the last n elements of a list (seq[-n:])
LastN(seq, n) == IF Len(seq) <= n THEN seq ELSE SubSeq(seq, Len(seq) - n + 1, Len(seq))

\* RiskManager.update_returns_history: pnl_percent is a ratio here, so the
\* division by 100 is already made
UpdateReturnsHistory(r, pnl_percent) ==
    [r EXCEPT !.returns_history = LastN(Append(r.returns_history, pnl_percent), ReturnsHistoryCap)]

\* RiskManager.update_win_loss_stats
UpdateWinLossStats(r, pnl) ==
    IF pnl > 0
    THEN [r EXCEPT !.wins = r.wins + 1, !.total_win_amount = r.total_win_amount + pnl]
    ELSE IF pnl < 0
    THEN [r EXCEPT !.losses = r.losses + 1, !.total_loss_amount = r.total_loss_amount + Abs(pnl)]
    ELSE r

HalfKellyFraction == 500          \* full_kelly * 0.5, in thousandths
QuarterKellyFraction == 250       \* full_kelly * 0.25, in thousandths

\* x * f / 1000 for a fraction f in thousandths
MulMille(x, f) == RoundDiv(x * f, 1000)

\* RiskManager.calculate_kelly_criterion.  self carries the configuration
\* (kelly_fraction in thousandths, max_risk_per_trade in ppm) and the win/loss
\* statistics; win_rate and avg_win_loss_ratio are in thousandths, NoTime for
\* None; the fractions returned are in ppm.
CalculateKellyCriterion(self, win_rate, avg_win_loss_ratio) ==
    LET total_trades == self.wins + self.losses
        p == IF win_rate # NoTime THEN win_rate
             ELSE IF total_trades > 0 THEN Ratio(self.wins, total_trades) \div 1000
             ELSE 500
        b == IF avg_win_loss_ratio # NoTime THEN avg_win_loss_ratio
             ELSE IF self.losses > 0 /\ self.total_loss_amount > 0
             THEN LET avg_win == self.total_win_amount \div Max(1, self.wins)
                      avg_loss == self.total_loss_amount \div self.losses
                  IN  IF avg_loss > 0 THEN Ratio(avg_win, avg_loss) \div 1000 ELSE 2000
             ELSE 2000
        q == 1000 - p
        raw_kelly == IF b > 0 THEN Ratio(p * b - q * 1000, b * 1000) ELSE 0
        full_kelly == Max(0, Min(1000000, raw_kelly))
        half_kelly == MulMille(full_kelly, HalfKellyFraction)
        quarter_kelly == MulMille(full_kelly, QuarterKellyFraction)
        recommended == Min(quarter_kelly, self.max_risk_per_trade)
    IN  [full_kelly |-> Round2(full_kelly),
         half_kelly |-> Round2(half_kelly),
         quarter_kelly |-> Round2(quarter_kelly),
         recommended |-> Round2(recommended),
         win_rate |-> p,
         avg_win_loss_ratio |-> b]

\* calculate_position_size written without the exposure cap
CalculatePositionSizeUncapped(capital, entry_price, stop_loss) ==
    LET raw_distance == Abs(entry_price - stop_loss)
        stop_distance == IF raw_distance = 0 THEN entry_price \div 50 ELSE raw_distance
        risk_amount == MulPpm(capital, MaxRiskPerTrade)
        position_size == RoundDiv(risk_amount * 10, stop_distance)
    IN  [size |-> position_size,
         size_quote |-> Round2(Notional(entry_price, position_size)),
         risk_amount |-> Round2(risk_amount),
         risk_percent |-> Round2(MaxRiskPerTrade)]

\* RiskManager.calculate_position_size with the default win_rate and
\* avg_win_loss_ratio, which is how execute_signal calls it
CalculatePositionSize(capital, entry_price, stop_loss) ==
    LET raw_distance == Abs(entry_price - stop_loss)
        stop_distance == IF raw_distance = 0 THEN entry_price \div 50 ELSE raw_distance
        kelly_full == Max(0, DefaultWinRate - Ratio(1000000 - DefaultWinRate, DefaultWinLossRatio))
        kelly_used == (kelly_full \div 1000) * (KellyFraction \div 1000)
        risk_percent == IF kelly_used > 0 THEN Min(MaxRiskPerTrade, kelly_used) ELSE MaxRiskPerTrade
        risk_amount == MulPpm(capital, risk_percent)
        position_size == RoundDiv(risk_amount * 10, stop_distance)
        position_size_quote == Notional(entry_price, position_size)
        max_position_quote == MulPpm(capital, MaxRiskTotal)
        capped == position_size_quote > max_position_quote
        capped_size == RoundDiv(max_position_quote * 10, entry_price)
        capped_risk == Notional(stop_distance, capped_size)
    IN  IF capped
        THEN [size |-> capped_size,
              size_quote |-> Round2(max_position_quote),
              risk_amount |-> Round2(capped_risk),
              risk_percent |-> Round2(Ratio(capped_risk, capital))]
        ELSE [size |-> position_size,
              size_quote |-> Round2(position_size_quote),
              risk_amount |-> Round2(risk_amount),
              risk_percent |-> Round2(risk_percent)]

\* check_pre_trade_conditions written to clear the loss count when it starts the
\* pause
CheckPreTradeConditionsClearing(r, t, capital, current_positions, current_exposure, spread_percent) ==
    IF r.pause_until # NoTime /\ t < r.pause_until
    THEN [allowed |-> FALSE, reason |-> "pause", risk |-> r]
    ELSE IF r.daily_pnl < 0 /\ capital > 0 /\ Ratio(Abs(r.daily_pnl), capital) > DailyLossLimit
    THEN [allowed |-> FALSE, reason |-> "daily_loss", risk |-> r]
    ELSE IF r.consecutive_losses >= ConsecutiveLossPause
    THEN [allowed |-> FALSE, reason |-> "consecutive_losses",
          risk |-> [r EXCEPT !.pause_until = t + PauseDurationMinutes,
                             !.consecutive_losses = 0]]
    ELSE IF current_positions >= MaxOpenPositions
    THEN [allowed |-> FALSE, reason |-> "max_positions", risk |-> r]
    ELSE IF current_exposure >= MaxRiskTotal
    THEN [allowed |-> FALSE, reason |-> "max_exposure", risk |-> r]
    ELSE IF spread_percent > MaxSpread
    THEN [allowed |-> FALSE, reason |-> "spread", risk |-> r]
    ELSE [allowed |-> TRUE, reason |-> "OK", risk |-> r]

\* check_pre_trade_conditions written with the position limit tested by ">":
\* the variant that lets one position too many through
CheckPreTradeConditionsOffByOne(r, t, capital, current_positions, current_exposure, spread_percent) ==
    IF r.pause_until # NoTime /\ t < r.pause_until
    THEN [allowed |-> FALSE, reason |-> "pause", risk |-> r]
    ELSE IF r.daily_pnl < 0 /\ capital > 0 /\ Ratio(Abs(r.daily_pnl), capital) > DailyLossLimit
    THEN [allowed |-> FALSE, reason |-> "daily_loss", risk |-> r]
    ELSE IF r.consecutive_losses >= ConsecutiveLossPause
    THEN [allowed |-> FALSE, reason |-> "consecutive_losses",
          risk |-> [r EXCEPT !.pause_until = t + PauseDurationMinutes]]
    ELSE IF current_positions > MaxOpenPositions
    THEN [allowed |-> FALSE, reason |-> "max_positions", risk |-> r]
    ELSE IF current_exposure >= MaxRiskTotal
    THEN [allowed |-> FALSE, reason |-> "max_exposure", risk |-> r]
    ELSE IF spread_percent > MaxSpread
    THEN [allowed |-> FALSE, reason |-> "spread", risk |-> r]
    ELSE [allowed |-> TRUE, reason |-> "OK", risk |-> r]

\* check_pre_trade_conditions with the exposure test ahead of the position count
CheckPreTradeConditionsExposureFirst(r, t, capital, current_positions, current_exposure, spread_percent) ==
    IF r.pause_until # NoTime /\ t < r.pause_until
    THEN [allowed |-> FALSE, reason |-> "pause", risk |-> r]
    ELSE IF r.daily_pnl < 0 /\ capital > 0 /\ Ratio(Abs(r.daily_pnl), capital) > DailyLossLimit
    THEN [allowed |-> FALSE, reason |-> "daily_loss", risk |-> r]
    ELSE IF r.consecutive_losses >= ConsecutiveLossPause
    THEN [allowed |-> FALSE, reason |-> "consecutive_losses",
          risk |-> [r EXCEPT !.pause_until = t + PauseDurationMinutes]]
    ELSE IF current_exposure >= MaxRiskTotal
    THEN [allowed |-> FALSE, reason |-> "max_exposure", risk |-> r]
    ELSE IF current_positions >= MaxOpenPositions
    THEN [allowed |-> FALSE, reason |-> "max_positions", risk |-> r]
    ELSE IF spread_percent > MaxSpread
    THEN [allowed |-> FALSE, reason |-> "spread", risk |-> r]
    ELSE [allowed |-> TRUE, reason |-> "OK", risk |-> r]

\* RiskManager.check_pre_trade_conditions at time t: whether the trade is
\* allowed, the check that denied it, and the RiskManager afterwards
CheckPreTradeConditions(r, t, capital, current_positions, current_exposure, spread_percent) ==
    IF r.pause_until # NoTime /\ t < r.pause_until
    THEN [allowed |-> FALSE, reason |-> "pause", risk |-> r]
    ELSE IF r.daily_pnl < 0 /\ capital > 0 /\ Ratio(Abs(r.daily_pnl), capital) > DailyLossLimit
    THEN [allowed |-> FALSE, reason |-> "daily_loss", risk |-> r]
    ELSE IF r.consecutive_losses >= ConsecutiveLossPause
    THEN [allowed |-> FALSE, reason |-> "consecutive_losses",
          risk |-> [r EXCEPT !.pause_until = t + PauseDurationMinutes]]
    ELSE IF current_positions >= MaxOpenPositions
    THEN [allowed |-> FALSE, reason |-> "max_positions", risk |-> r]
    ELSE IF current_exposure >= MaxRiskTotal
    THEN [allowed |-> FALSE, reason |-> "max_exposure", risk |-> r]
    ELSE IF spread_percent > MaxSpread
    THEN [allowed |-> FALSE, reason |-> "spread", risk |-> r]
    ELSE [allowed |-> TRUE, reason |-> "OK", risk |-> r]

\* RiskManager.update_trade_result at time t
\* update_trade_result written with "pnl <= 0": the variant that counts a
\* break-even trade as a loss
UpdateTradeResultCountingZero(r, t, pnl, capital) ==
    [r EXCEPT !.daily_pnl = r.daily_pnl + pnl,
              !.trade_history = Append(r.trade_history,
                                       [pnl |-> pnl, timestamp |-> t, capital |-> capital]),
              !.consecutive_losses = IF pnl <= 0 THEN r.consecutive_losses + 1 ELSE 0]

UpdateTradeResult(r, t, pnl, capital) ==
    [r EXCEPT !.daily_pnl = r.daily_pnl + pnl,
              !.trade_history = Append(r.trade_history,
                                       [pnl |-> pnl, timestamp |-> t, capital |-> capital]),
              !.consecutive_losses = IF pnl < 0 THEN r.consecutive_losses + 1 ELSE 0]

-----------------------------------------------------------------------------
(* PreTradeChecker (backend/trading/pre_trade_checks.py): seven checks,     *)
(* each a PreTradeCheckResult.  Volumes are whole units.                    *)

PreTradeCheckResult(passed, check_name, severity) ==
    [passed |-> passed, check_name |-> check_name, severity |-> severity]

CheckPauseStatus(is_paused) ==
    IF is_paused THEN PreTradeCheckResult(FALSE, "pause_status", "critical")
    ELSE PreTradeCheckResult(TRUE, "pause_status", "info")

CheckDailyLoss(daily_pnl, capital) ==
    LET daily_loss_percent == IF capital > 0 THEN Ratio(Abs(daily_pnl), capital) ELSE 0
    IN  IF daily_pnl < 0 /\ daily_loss_percent >= DailyLossLimit
        THEN PreTradeCheckResult(FALSE, "daily_loss", "critical")
        ELSE PreTradeCheckResult(TRUE, "daily_loss", "info")

CheckConsecutiveLosses(consecutive_losses) ==
    IF consecutive_losses >= ConsecutiveLossPause
    THEN PreTradeCheckResult(FALSE, "consecutive_losses", "critical")
    ELSE PreTradeCheckResult(TRUE, "consecutive_losses", "info")

CheckOpenPositions(open_positions) ==
    IF open_positions >= MaxOpenPositions
    THEN PreTradeCheckResult(FALSE, "open_positions", "critical")
    ELSE PreTradeCheckResult(TRUE, "open_positions", "info")

CheckExposure(total_exposure) ==
    IF total_exposure >= MaxRiskTotal
    THEN PreTradeCheckResult(FALSE, "exposure", "critical")
    ELSE PreTradeCheckResult(TRUE, "exposure", "info")

CheckSpread(spread) ==
    IF spread > MaxSpread
    THEN PreTradeCheckResult(FALSE, "spread", "critical")
    ELSE PreTradeCheckResult(TRUE, "spread", "info")

\* _check_liquidity written to fail with severity 'critical'
CheckLiquidityCritical(volume, avg_volume) ==
    IF avg_volume = 0 THEN PreTradeCheckResult(FALSE, "liquidity", "critical")
    ELSE IF 2 * volume < avg_volume THEN PreTradeCheckResult(FALSE, "liquidity", "critical")
    ELSE PreTradeCheckResult(TRUE, "liquidity", "info")

\* volume / avg_volume < 0.5, for volumes that are not negative
CheckLiquidity(volume, avg_volume) ==
    IF avg_volume = 0 THEN PreTradeCheckResult(FALSE, "liquidity", "warning")
    ELSE IF 2 * volume < avg_volume THEN PreTradeCheckResult(FALSE, "liquidity", "warning")
    ELSE PreTradeCheckResult(TRUE, "liquidity", "info")

\* all(r.passed for r in results if r.severity == 'critical')
AllCriticalPassed(results) ==
    \A i \in DOMAIN results : results[i].severity = "critical" => results[i].passed

\* PreTradeChecker.run_all_checks on a record of its nine arguments
RunAllChecks(a) ==
    LET results == <<CheckPauseStatus(a.is_paused),
                     CheckDailyLoss(a.daily_pnl, a.capital),
                     CheckConsecutiveLosses(a.consecutive_losses),
                     CheckOpenPositions(a.open_positions),
                     CheckExposure(a.total_exposure),
                     CheckSpread(a.spread),
                     CheckLiquidity(a.volume, a.avg_volume)>>
    IN  [all_passed |-> AllCriticalPassed(results), results |-> results]

-----------------------------------------------------------------------------
(* PaperTrader (backend/trading/paper_trader.py).                           *)
(* trader.signal_history is the length of the list; trader.next_id stands  *)
(* for uuid4: every position gets an id no position had before.            *)

TraderInit == [signal_history |-> 0, next_id |-> 1]

\* signal.get('type', '').lower()
Lower(type) == IF type = "LONG" THEN "long" ELSE IF type = "SHORT" THEN "short" ELSE type

\* signals carrying every field: a long and a short with the stop and the target on
\* the right sides of the entry, and a long with both on the wrong side
CompleteSignals ==
    {[symbol |-> "BTC/USDT", type |-> "LONG", entry_price |-> 20000,
      stop_loss |-> 10000, take_profit |-> 30000],
     [symbol |-> "ETH/USDT", type |-> "SHORT", entry_price |-> 20000,
      stop_loss |-> 30000, take_profit |-> 10000],
     [symbol |-> "BTC/USDT", type |-> "LONG", entry_price |-> 20000,
      stop_loss |-> 30000, take_profit |-> 10000]}

\* a signal with a field missing: signal.get gives None, which all() takes as it
\* takes 0 and ''
IncompleteSignals ==
    {[symbol |-> "BTC/USDT", type |-> "LONG", entry_price |-> 20000,
      stop_loss |-> 0, take_profit |-> 30000]}

\* no signal at all: None or the empty dict
EmptySignal == [symbol |-> "", type |-> "", entry_price |-> 0, stop_loss |-> 0, take_profit |-> 0]

\* all([symbol, direction, entry_price, stop_loss, take_profit])
AllFields(signal) ==
    /\ signal.symbol # ""
    /\ Lower(signal.type) # ""
    /\ signal.entry_price # 0
    /\ signal.stop_loss # 0
    /\ signal.take_profit # 0

\* the record of a call: what was called and when, what it returned (closed lists
\* the trades it closed, with the fees it passed to the ledger), and the number of
\* open positions when it was called
Call(op, symbol, status, reason, id, closed) ==
    [op |-> op, symbol |-> symbol, status |-> status, reason |-> reason, id |-> id,
     closed |-> closed, at |-> now,
     open_before |-> Cardinality(DOMAIN portfolio.positions)]

\* entry price after slippage: against the trader
ExecutedPrice(direction, entry_price) ==
    IF direction = "long"
    THEN entry_price + MulPpm(entry_price, Slippage)
    ELSE entry_price - MulPpm(entry_price, Slippage)

\* exit price after slippage, for a manual close or a stop
ExitPrice(direction, price) ==
    IF direction = "long"
    THEN price - MulPpm(price, Slippage)
    ELSE price + MulPpm(price, Slippage)

\* the history of the pause, after the gate answered at time t
HistAfterGate(gate) ==
    IF gate.reason = "consecutive_losses" /\ (hist.pause_began = NoTime \/ hist.closed_since)
    THEN [hist EXCEPT !.pause_began = now, !.closed_since = FALSE]
    ELSE hist

\* the history of the pause, after n trades were closed
HistAfterClose(n) ==
    IF n > 0 /\ hist.pause_began # NoTime THEN [hist EXCEPT !.closed_since = TRUE] ELSE hist

\* PaperTrader.execute_signal on the world w (Portfolio, RiskManager, trader) at
\* time t: the world after it and the result it returns
ExecuteSignalOn(w, t, signal) ==
    IF signal = EmptySignal
    THEN [portfolio |-> w.portfolio, risk |-> w.risk, trader |-> w.trader,
          symbol |-> None, status |-> None, reason |-> "No signal provided", id |-> NoId,
          gate_reason |-> None]
    ELSE IF ~AllFields(signal)
    THEN [portfolio |-> w.portfolio, risk |-> w.risk, trader |-> w.trader,
          symbol |-> signal.symbol, status |-> None, reason |-> "Signal incomplet",
          id |-> NoId, gate_reason |-> None]
    ELSE
      LET direction == Lower(signal.type)
          capital == w.portfolio.capital
          gate == CheckPreTradeConditions(w.risk, t, capital,
                                          Cardinality(DOMAIN w.portfolio.positions),
                                          GetExposure(w.portfolio), SimulatedSpread)
          position_size == CalculatePositionSize(capital, signal.entry_price, signal.stop_loss)
          executed_price == ExecutedPrice(direction, signal.entry_price)
          position_value == Notional(executed_price, position_size.size)
          fees == MulPpm(position_value, CommissionPercent)
          position_id == w.trader.next_id
          recorded == [w.trader EXCEPT !.signal_history = @ + 1]
      IN  IF ~gate.allowed
          THEN [portfolio |-> w.portfolio, risk |-> gate.risk, trader |-> recorded,
                symbol |-> signal.symbol, status |-> "rejected", reason |-> gate.reason,
                id |-> NoId, gate_reason |-> gate.reason]
          ELSE IF position_value + fees > capital
          THEN [portfolio |-> w.portfolio, risk |-> w.risk, trader |-> recorded,
                symbol |-> signal.symbol, status |-> "rejected", reason |-> "capital",
                id |-> NoId, gate_reason |-> gate.reason]
          ELSE [portfolio |-> OpenPosition(w.portfolio, position_id, signal.symbol, direction,
                                           executed_price, position_size.size,
                                           signal.stop_loss, signal.take_profit),
                risk |-> w.risk,
                trader |-> [signal_history |-> w.trader.signal_history + 1,
                            next_id |-> position_id + 1],
                symbol |-> signal.symbol, status |-> "executed", reason |-> "OK",
                id |-> position_id, gate_reason |-> gate.reason]

\* PaperTrader.execute_signal
ExecuteSignal(signal) ==
    LET done == ExecuteSignalOn([portfolio |-> portfolio, risk |-> risk, trader |-> trader],
                                now, signal)
    IN  /\ portfolio' = done.portfolio
        /\ risk' = done.risk
        /\ trader' = done.trader
        /\ hist' = HistAfterGate([reason |-> done.gate_reason])
        /\ last' = Call("execute_signal", done.symbol, done.status, done.reason, done.id, <<>>)
        /\ UNCHANGED <<sg, now>>

\* the body of update_prices' inner loop: closes one flagged position at time t
\* and feeds the result to the RiskManager.  w carries the Portfolio, the
\* RiskManager and the list returned so far.
CloseFlagged(w, t, close_info) ==
    IF close_info.id \notin DOMAIN w.portfolio.positions THEN w
    ELSE LET position == w.portfolio.positions[close_info.id]
             exit_price == IF close_info.reason = "stop_loss"
                           THEN ExitPrice(position.direction, close_info.price)
                           ELSE close_info.price
             fees == MulPpm(Notional(exit_price, position.size), CommissionPercent)
             done == ClosePosition(w.portfolio, close_info.id, exit_price, fees)
         IN  [portfolio |-> done.portfolio,
              risk |-> UpdateTradeResult(w.risk, t, done.net_pnl, done.portfolio.capital),
              closed |-> Append(w.closed, [id |-> close_info.id,
                                           close_reason |-> close_info.reason,
                                           fees |-> fees, net_pnl |-> done.net_pnl])]

RECURSIVE CloseAllFlagged(_, _, _)
CloseAllFlagged(w, t, infos) ==
    IF infos = <<>> THEN w
    ELSE CloseAllFlagged(CloseFlagged(w, t, Head(infos)), t, Tail(infos))

\* PaperTrader.update_prices over the (symbol, price) items of the dict, in order
RECURSIVE UpdatePricesFrom(_, _, _)
UpdatePricesFrom(w, t, items) ==
    IF items = <<>> THEN w
    ELSE LET checked == CheckStops(w.portfolio, Head(items)[1], Head(items)[2])
             w1 == CloseAllFlagged([w EXCEPT !.portfolio = checked.portfolio], t,
                                   checked.positions_to_close)
         IN  UpdatePricesFrom(w1, t, Tail(items))

UpdatePrices(items) ==
    LET w == UpdatePricesFrom([portfolio |-> portfolio, risk |-> risk, closed |-> <<>>],
                              now, items)
    IN  /\ portfolio' = w.portfolio
        /\ risk' = w.risk
        /\ hist' = HistAfterClose(Len(w.closed))
        /\ last' = Call("update_prices", None, None, None, NoId, w.closed)
        /\ UNCHANGED <<trader, sg, now>>

\* PaperTrader.close_position_manual on the world w
CloseManual(w, t, position_id, current_price) ==
    IF position_id \notin DOMAIN w.portfolio.positions THEN w
    ELSE LET position == w.portfolio.positions[position_id]
             exit_price == ExitPrice(position.direction, current_price)
             fees == MulPpm(Notional(exit_price, position.size), CommissionPercent)
             done == ClosePosition(w.portfolio, position_id, exit_price, fees)
         IN  [portfolio |-> done.portfolio,
              risk |-> UpdateTradeResult(w.risk, t, done.net_pnl, done.portfolio.capital),
              closed |-> Append(w.closed, [id |-> position_id, close_reason |-> "manual",
                                           fees |-> fees, net_pnl |-> done.net_pnl])]

ClosePositionManual(position_id, current_price) ==
    LET w == CloseManual([portfolio |-> portfolio, risk |-> risk, closed |-> <<>>],
                         now, position_id, current_price)
    IN  /\ portfolio' = w.portfolio
        /\ risk' = w.risk
        /\ hist' = HistAfterClose(Len(w.closed))
        /\ last' = IF position_id \in DOMAIN portfolio.positions
                   THEN Call("close_position_manual", portfolio.positions[position_id].symbol,
                             "closed", "manual", position_id, w.closed)
                   ELSE Call("close_position_manual", None, None, "Position not found",
                             position_id, <<>>)
        /\ UNCHANGED <<trader, sg, now>>

\* PaperTrader.close_all_positions over the ids of list(positions.keys())
RECURSIVE CloseAllFrom(_, _, _, _)
CloseAllFrom(w, t, ids, prices) ==
    IF ids = <<>> THEN w
    ELSE LET position_id == Head(ids)
             w1 == IF /\ position_id \in DOMAIN w.portfolio.positions
                      /\ w.portfolio.positions[position_id].symbol \in DOMAIN prices
                   THEN CloseManual(w, t, position_id,
                                    prices[w.portfolio.positions[position_id].symbol])
                   ELSE w
         IN  CloseAllFrom(w1, t, Tail(ids), prices)

CloseAllPositions(prices) ==
    LET w == CloseAllFrom([portfolio |-> portfolio, risk |-> risk, closed |-> <<>>],
                          now, KeysInOrder(DOMAIN portfolio.positions), prices)
    IN  /\ portfolio' = w.portfolio
        /\ risk' = w.risk
        /\ hist' = HistAfterClose(Len(w.closed))
        /\ last' = Call("close_all_positions", None, None, None, NoId, w.closed)
        /\ UNCHANGED <<trader, sg, now>>

\* Portfolio.close_position called on the ledger itself
PortfolioClosePosition(position_id, exit_price, fees) ==
    LET done == ClosePosition(portfolio, position_id, exit_price, fees)
        found == position_id \in DOMAIN portfolio.positions
    IN  /\ portfolio' = done.portfolio
        /\ last' = IF found
                   THEN Call("close_position", portfolio.positions[position_id].symbol,
                             "closed", None, position_id,
                             <<[id |-> position_id, close_reason |-> "ledger",
                                fees |-> fees, net_pnl |-> done.net_pnl]>>)
                   ELSE Call("close_position", None, None, done.result.error, position_id, <<>>)
        /\ UNCHANGED <<risk, trader, sg, now, hist>>

\* Portfolio.update_position_price called on the ledger itself
PortfolioUpdatePositionPrice(position_id, current_price) ==
    /\ portfolio' = UpdatePositionPrice(portfolio, position_id, current_price)
    /\ last' = Call("update_position_price", None, None, None, position_id, <<>>)
    /\ UNCHANGED <<risk, trader, sg, now, hist>>

\* RiskManager.update_trade_result called on the RiskManager itself
RiskUpdateTradeResult(pnl, capital) ==
    /\ risk' = UpdateTradeResult(risk, now, pnl, capital)
    /\ last' = Call("update_trade_result", None, None, None, NoId, <<>>)
    /\ UNCHANGED <<portfolio, trader, sg, now, hist>>

\* RiskManager.check_pre_trade_conditions called on the RiskManager itself
RiskCheckPreTradeConditions(capital, current_positions, current_exposure, spread_percent) ==
    LET gate == CheckPreTradeConditions(risk, now, capital, current_positions,
                                        current_exposure, spread_percent)
    IN  /\ risk' = gate.risk
        /\ last' = Call("check_pre_trade_conditions", None,
                        IF gate.allowed THEN "allowed" ELSE "denied", gate.reason, NoId, <<>>)
        /\ UNCHANGED <<portfolio, trader, sg, now, hist>>

\* the clock (datetime.now), which the program reads only against pause_until
Tick(minutes) ==
    /\ risk.pause_until # NoTime
    /\ now' = now + minutes
    /\ UNCHANGED <<portfolio, risk, trader, sg, last, hist>>

-----------------------------------------------------------------------------
(* SignalGenerator's state machine (backend/indicators/signals.py).         *)
(* g is the SignalGenerator: states, cooldown_bars, armed_signals and       *)
(* position_info, each a dict keyed by symbol.                              *)

CooldownDuration == 5             \* self.cooldown_duration

SgInit == [states |-> <<>>, cooldown_bars |-> <<>>, armed_signals |-> <<>>, position_info |-> <<>>]

TradingState == {"SCANNING", "ARMED", "IN_POSITION", "COOLDOWN"}

\* the TradingSignals handed to arm_signal
TradingSignals ==
    {[type |-> "LONG", strength_score |-> 65, entry_price |-> 20000,
      stop_loss |-> 10000, take_profit |-> 30000],
     [type |-> "SHORT", strength_score |-> 70, entry_price |-> 20000,
      stop_loss |-> 30000, take_profit |-> 10000]}

GetState(g, symbol) ==
    IF symbol \in DOMAIN g.states THEN g.states[symbol] ELSE "SCANNING"

SetState(g, symbol, state) == [g EXCEPT !.states = Put(g.states, symbol, state)]

\* cooldown_bars.get(symbol, 0)
CooldownBars(g, symbol) ==
    IF symbol \in DOMAIN g.cooldown_bars THEN g.cooldown_bars[symbol] ELSE 0

ArmSignalOn(g, symbol, signal) ==
    SetState([g EXCEPT !.armed_signals = Put(g.armed_signals, symbol, signal)], symbol, "ARMED")

\* confirm_and_enter returns None and changes nothing unless the symbol is ARMED
\* with a stored signal
CanConfirm(g, symbol) ==
    GetState(g, symbol) = "ARMED" /\ symbol \in DOMAIN g.armed_signals

\* confirm_and_enter written without "del self.armed_signals[symbol]"
ConfirmAndEnterOnKeeping(g, symbol, entry_price) ==
    IF ~CanConfirm(g, symbol) THEN g
    ELSE LET signal == g.armed_signals[symbol]
             g1 == [g EXCEPT !.position_info =
                      Put(g.position_info, symbol,
                          [type |-> signal.type, entry_price |-> entry_price,
                           stop_loss |-> signal.stop_loss,
                           take_profit |-> signal.take_profit, signal |-> signal])]
         IN  SetState(g1, symbol, "IN_POSITION")

ConfirmAndEnterOn(g, symbol, entry_price) ==
    IF ~CanConfirm(g, symbol) THEN g
    ELSE LET signal == g.armed_signals[symbol]
             g1 == [g EXCEPT !.position_info =
                      Put(g.position_info, symbol,
                          [type |-> signal.type, entry_price |-> entry_price,
                           stop_loss |-> signal.stop_loss,
                           take_profit |-> signal.take_profit, signal |-> signal])]
             g2 == SetState(g1, symbol, "IN_POSITION")
         IN  [g2 EXCEPT !.armed_signals = Del(g2.armed_signals, symbol)]

\* exit_position returns None and changes nothing unless the symbol is IN_POSITION
\* with a stored position
CanExit(g, symbol) ==
    GetState(g, symbol) = "IN_POSITION" /\ symbol \in DOMAIN g.position_info

ExitPositionOn(g, symbol) ==
    IF ~CanExit(g, symbol) THEN g
    ELSE LET g1 == [g EXCEPT !.cooldown_bars = Put(g.cooldown_bars, symbol, CooldownDuration)]
             g2 == SetState(g1, symbol, "COOLDOWN")
         IN  [g2 EXCEPT !.position_info = Del(g2.position_info, symbol)]

\* the pnl_percent exit_position reports, as a ratio
ExitPnlPercent(position, exit_price) ==
    IF position.type = "LONG"
    THEN Ratio(exit_price - position.entry_price, position.entry_price)
    ELSE Ratio(position.entry_price - exit_price, position.entry_price)

\* update_cooldown written with "remaining > 0": the variant that leaves
\* COOLDOWN one bar late
UpdateCooldownOnLate(g, symbol) ==
    IF GetState(g, symbol) # "COOLDOWN" THEN g
    ELSE LET remaining == CooldownBars(g, symbol)
         IN  IF remaining > 0
             THEN [g EXCEPT !.cooldown_bars = Put(g.cooldown_bars, symbol, remaining - 1)]
             ELSE SetState([g EXCEPT !.cooldown_bars = Put(g.cooldown_bars, symbol, 0)],
                           symbol, "SCANNING")

UpdateCooldownOn(g, symbol) ==
    IF GetState(g, symbol) # "COOLDOWN" THEN g
    ELSE LET remaining == CooldownBars(g, symbol)
         IN  IF remaining > 1
             THEN [g EXCEPT !.cooldown_bars = Put(g.cooldown_bars, symbol, remaining - 1)]
             ELSE SetState([g EXCEPT !.cooldown_bars = Put(g.cooldown_bars, symbol, 0)],
                           symbol, "SCANNING")

CancelArmedSignalOn(g, symbol) ==
    SetState([g EXCEPT !.armed_signals = Del(g.armed_signals, symbol)], symbol, "SCANNING")

\* get_state_summary: the states set so far and the sizes of the three dicts
GetStateSummary(g) ==
    [states |-> g.states,
     armed_signals |-> Cardinality(DOMAIN g.armed_signals),
     positions |-> Cardinality(DOMAIN g.position_info),
     in_cooldown |-> Cardinality({s \in DOMAIN g.states : g.states[s] = "COOLDOWN"})]

\* atr * 1.5, in cents
TrailingDistance(atr) == RoundDiv(3 * atr, 2)

\* the stop update_trailing_stop would set for a position at a price, or the
\* position's own stop when it sets none
TrailedStop(position, current_price, atr) ==
    LET entry == position.entry_price
        current_sl == position.stop_loss
        risk_distance == Abs(entry - position.stop_loss)
    IN  IF position.type = "LONG"
        THEN LET trailing_sl == current_price - TrailingDistance(atr)
             IN  IF current_price >= entry + risk_distance /\ trailing_sl > current_sl
                 THEN trailing_sl ELSE current_sl
        ELSE LET trailing_sl == current_price + TrailingDistance(atr)
             IN  IF current_price <= entry - risk_distance /\ trailing_sl < current_sl
                 THEN trailing_sl ELSE current_sl

\* update_trailing_stop written without the comparison with the current stop
UpdateTrailingStopOnAlways(g, symbol, current_price, atr) ==
    IF ~CanExit(g, symbol) THEN g
    ELSE LET position == g.position_info[symbol]
             risk_distance == Abs(position.entry_price - position.stop_loss)
             reached == IF position.type = "LONG"
                        THEN current_price >= position.entry_price + risk_distance
                        ELSE current_price <= position.entry_price - risk_distance
             trailing_sl == IF position.type = "LONG"
                            THEN current_price - TrailingDistance(atr)
                            ELSE current_price + TrailingDistance(atr)
         IN  IF reached THEN [g EXCEPT !.position_info[symbol].stop_loss = trailing_sl] ELSE g

\* update_trailing_stop returns and changes nothing unless the symbol is
\* IN_POSITION with a stored position
UpdateTrailingStopOn(g, symbol, current_price, atr) ==
    IF ~CanExit(g, symbol) THEN g
    ELSE [g EXCEPT !.position_info[symbol].stop_loss =
                      TrailedStop(g.position_info[symbol], current_price, atr)]

\* the count of update_cooldown calls since the symbol's exit: dropped when another
\* transition function is called on the symbol
HistCooldown(symbol, count) == [hist EXCEPT !.cooldown_calls[symbol] = count]

ArmSignal(symbol, signal) ==
    /\ sg' = ArmSignalOn(sg, symbol, signal)
    /\ hist' = HistCooldown(symbol, NoTime)
    /\ last' = Call("arm_signal", symbol, None, None, NoId, <<>>)
    /\ UNCHANGED <<portfolio, risk, trader, now>>

ConfirmAndEnter(symbol, entry_price) ==
    /\ sg' = ConfirmAndEnterOn(sg, symbol, entry_price)
    /\ hist' = HistCooldown(symbol, NoTime)
    /\ last' = Call("confirm_and_enter", symbol,
                    IF CanConfirm(sg, symbol) THEN "entered" ELSE None, None, NoId, <<>>)
    /\ UNCHANGED <<portfolio, risk, trader, now>>

ExitPosition(symbol, exit_price, reason) ==
    /\ sg' = ExitPositionOn(sg, symbol)
    /\ hist' = HistCooldown(symbol, IF CanExit(sg, symbol) THEN 0 ELSE NoTime)
    /\ last' = IF CanExit(sg, symbol)
               THEN Call("exit_position", symbol, "exited", reason, NoId,
                         <<[pnl_percent |-> ExitPnlPercent(sg.position_info[symbol], exit_price)]>>)
               ELSE Call("exit_position", symbol, None, None, NoId, <<>>)
    /\ UNCHANGED <<portfolio, risk, trader, now>>

UpdateCooldown(symbol) ==
    /\ sg' = UpdateCooldownOn(sg, symbol)
    /\ hist' = IF hist.cooldown_calls[symbol] = NoTime THEN hist
               ELSE HistCooldown(symbol, Min(hist.cooldown_calls[symbol] + 1, CooldownDuration))
    /\ last' = Call("update_cooldown", symbol, None, None, NoId, <<>>)
    /\ UNCHANGED <<portfolio, risk, trader, now>>

UpdateTrailingStop(symbol, current_price, atr) ==
    /\ sg' = UpdateTrailingStopOn(sg, symbol, current_price, atr)
    /\ hist' = HistCooldown(symbol, NoTime)
    /\ last' = Call("update_trailing_stop", symbol,
                    IF sg' # sg THEN "moved" ELSE None, None, NoId,
                    <<[current_price |-> current_price, atr |-> atr]>>)
    /\ UNCHANGED <<portfolio, risk, trader, now>>

CancelArmedSignal(symbol) ==
    /\ sg' = CancelArmedSignalOn(sg, symbol)
    /\ hist' = HistCooldown(symbol, NoTime)
    /\ last' = Call("cancel_armed_signal", symbol, None, None, NoId, <<>>)
    /\ UNCHANGED <<portfolio, risk, trader, now>>

-----------------------------------------------------------------------------

Init ==
    /\ portfolio = PortfolioInit
    /\ risk = RiskInit
    /\ trader = TraderInit
    /\ sg = SgInit
    /\ now = 0
    /\ last = [op |-> "init", symbol |-> None, status |-> None, reason |-> None,
               id |-> NoId, closed |-> <<>>, at |-> 0, open_before |-> 0]
    /\ hist = [pause_began |-> NoTime, closed_since |-> FALSE,
               cooldown_calls |-> [s \in Symbols |-> NoTime]]

-----------------------------------------------------------------------------
(* Trader runs: few trades, every kind of signal, ticks on both sides.      *)

\* the ids a caller may name: the ones handed out, and one never handed out
KnownIds == 1..trader.next_id

Signals == CompleteSignals \cup IncompleteSignals \cup {EmptySignal}

\* the dicts {symbol: price} handed to update_prices, as item lists
PriceItems ==
    {<<<<s, pr>>>> : s \in Symbols, pr \in {10000, 25000}}
    \cup {<<<<"BTC/USDT", 30000>>, <<"ETH/USDT", 30000>>>>}

\* the dicts {symbol: price} handed to close_all_positions
PriceDicts == {[s \in S |-> 20000] : S \in {{"BTC/USDT"}, Symbols}}

Next ==
    \/ \E signal \in Signals :
          /\ trader.signal_history < MaxSignals
          /\ ExecuteSignal(signal)
    \/ \E items \in PriceItems : UpdatePrices(items)
    \/ \E id \in KnownIds, price \in {20000} : ClosePositionManual(id, price)
    \/ \E prices \in PriceDicts : CloseAllPositions(prices)

Spec == Init /\ [][Next]_vars

-----------------------------------------------------------------------------
(* Gate runs: enough trades to fill the book and to lose three in a row.    *)

GateSignals == {sig \in CompleteSignals : sig.type = "LONG" /\ sig.stop_loss < sig.take_profit}

\* a tick that re-prices the open longs and reaches no stop
GatePriceItems == {<<<<"BTC/USDT", 15000>>>>}

NextGate ==
    \/ \E signal \in GateSignals :
          /\ trader.signal_history < MaxGateSignals
          /\ ExecuteSignal(signal)
    \/ \E items \in GatePriceItems : UpdatePrices(items)
    \/ \E id \in KnownIds, price \in {20000} : ClosePositionManual(id, price)
    \/ \E minutes \in {PauseDurationMinutes} :
          /\ now + minutes <= MaxNow
          /\ Tick(minutes)

SpecGate == Init /\ [][NextGate]_vars

-----------------------------------------------------------------------------
(* Book-keeping runs: the ledger's own methods next to the trader's.        *)

LedgerSignals == {sig \in CompleteSignals :
                     IF sig.type = "LONG" THEN sig.stop_loss < sig.take_profit
                                          ELSE sig.take_profit < sig.stop_loss}

LedgerPriceItems == {<<<<"BTC/USDT", 10000>>>>, <<<<"ETH/USDT", 25000>>>>}

NextLedger ==
    \/ \E signal \in LedgerSignals :
          /\ trader.signal_history < MaxLedgerSignals
          /\ ExecuteSignal(signal)
    \/ \E items \in LedgerPriceItems : UpdatePrices(items)
    \/ \E id \in KnownIds : ClosePositionManual(id, 20000)
    \/ \E id \in KnownIds : PortfolioClosePosition(id, 25000, 0)
    \/ \E id \in KnownIds : PortfolioUpdatePositionPrice(id, 25000)

SpecLedger == Init /\ [][NextLedger]_vars

-----------------------------------------------------------------------------
(* State-machine runs: every transition function on every symbol.           *)

NextMachine ==
    \/ \E symbol \in Symbols, signal \in TradingSignals : ArmSignal(symbol, signal)
    \/ \E symbol \in Symbols : ConfirmAndEnter(symbol, 20000)
    \/ \E symbol \in Symbols, reason \in {"sl", "manual"} : ExitPosition(symbol, 10000, reason)
    \/ \E symbol \in Symbols : UpdateCooldown(symbol)
    \/ \E symbol \in Symbols : CancelArmedSignal(symbol)

SpecMachine == Init /\ [][NextMachine]_vars

-----------------------------------------------------------------------------
(* Lifecycle runs: the state machine and the trader side by side, on one    *)
(* symbol, as any caller holding both objects can drive them.               *)

ScenarioSymbol == "BTC/USDT"

ScenarioTradingSignals == {sig \in TradingSignals : sig.type = "LONG" /\ sig.strength_score = 65}

ScenarioSignals == {sig \in CompleteSignals :
                       /\ sig.symbol = ScenarioSymbol
                       /\ sig.type = "LONG"
                       /\ sig.stop_loss < sig.take_profit}

NextScenario ==
    \/ \E signal \in ScenarioTradingSignals : ArmSignal(ScenarioSymbol, signal)
    \/ ConfirmAndEnter(ScenarioSymbol, 20000)
    \/ ExitPosition(ScenarioSymbol, 10000, "sl")
    \/ UpdateCooldown(ScenarioSymbol)
    \/ CancelArmedSignal(ScenarioSymbol)
    \/ \E signal \in ScenarioSignals :
          /\ trader.signal_history < MaxScenarioSignals
          /\ ExecuteSignal(signal)
    \/ UpdatePrices(<<<<ScenarioSymbol, 10000>>>>)

SpecScenario == Init /\ [][NextScenario]_vars

-----------------------------------------------------------------------------
(* Exposure runs: longs with a wide stop (sized by the risk per trade) and  *)
(* with a tight stop (sized by the exposure cap).                           *)

ExposureSignals ==
    {[symbol |-> "BTC/USDT", type |-> "LONG", entry_price |-> 20000,
      stop_loss |-> sl, take_profit |-> 30000] : sl \in {10000, 19600}}

ExposurePriceItems == {<<<<"BTC/USDT", pr>>>> : pr \in {19800, 25000}}

NextExposure ==
    \/ \E signal \in ExposureSignals :
          /\ trader.signal_history < MaxExposureSignals
          /\ ExecuteSignal(signal)
    \/ \E items \in ExposurePriceItems : UpdatePrices(items)
    \/ \E id \in KnownIds : ClosePositionManual(id, 20000)

SpecExposure == Init /\ [][NextExposure]_vars

-----------------------------------------------------------------------------
(* Risk runs: the RiskManager alone, fed wins, break-evens and losses.      *)

\* pnl of a trade: a loss, a break-even and a win of 10 quote units
TradePnls == {-100000, 0, 100000}

GateCounts == {0, MaxOpenPositions}

NextRisk ==
    \/ \E pnl \in TradePnls :
          /\ Len(risk.trade_history) < MaxTrades
          /\ RiskUpdateTradeResult(pnl, InitialCapital + risk.daily_pnl + pnl)
    \/ \E n \in GateCounts :
          RiskCheckPreTradeConditions(InitialCapital + risk.daily_pnl, n, 0, SimulatedSpread)
    \/ \E minutes \in {PauseDurationMinutes} :
          /\ now + minutes <= MaxNow
          /\ Tick(minutes)

SpecRisk == Init /\ [][NextRisk]_vars

-----------------------------------------------------------------------------
(* Gate-order runs: check_pre_trade_conditions applied once to a RiskManager *)
(* with a history of results behind it, on arguments at each limit.          *)

\* the results recorded before the call, oldest first: losses of 10, 300 and 400
\* quote units and a win of 10
GateHistories ==
    {<<>>, <<-100000>>, <<-100000, -100000, -100000>>, <<-3000000>>, <<-4000000>>,
     <<-4000000, 100000>>, <<-4000000, -100000, -100000>>}

RECURSIVE RiskAfter(_, _)
RiskAfter(r, pnls) ==
    IF pnls = <<>> THEN r
    ELSE RiskAfter(UpdateTradeResult(r, 0, Head(pnls), InitialCapital + r.daily_pnl + Head(pnls)),
                   Tail(pnls))

\* the RiskManager after a history, and after a history and a call at time 0
GateRisks ==
    LET after == {RiskAfter(RiskInit, h) : h \in GateHistories}
    IN  after \cup {CheckPreTradeConditions(r, 0, InitialCapital, 0, 0, SimulatedSpread).risk :
                       r \in after}

GateArguments ==
    {[capital |-> InitialCapital, current_positions |-> n, current_exposure |-> e,
      spread_percent |-> sp] :
        n \in {MaxOpenPositions - 1, MaxOpenPositions},
        e \in {MaxRiskTotal - 1, MaxRiskTotal},
        sp \in {MaxSpread, MaxSpread + 1}}

\* the clock before the end of a pause begun at 0, and at its end
GateTimes == {PauseDurationMinutes - 5, PauseDurationMinutes}

InitGateOrder ==
    /\ portfolio = PortfolioInit
    /\ risk \in GateRisks
    /\ trader = TraderInit
    /\ sg = SgInit
    /\ now \in GateTimes
    /\ last \in {[op |-> "gate arguments", args |-> a, result |-> <<>>] : a \in GateArguments}
    /\ hist = [pause_began |-> NoTime, closed_since |-> FALSE,
               cooldown_calls |-> [s \in Symbols |-> NoTime]]

CheckPreTradeConditionsCall ==
    /\ last.op = "gate arguments"
    /\ LET a == last.args
           gate == CheckPreTradeConditions(risk, now, a.capital, a.current_positions,
                                           a.current_exposure, a.spread_percent)
       IN  /\ risk' = gate.risk
           /\ last' = [op |-> "check_pre_trade_conditions", args |-> a,
                       result |-> <<gate.allowed, gate.reason>>]
    /\ UNCHANGED <<portfolio, trader, sg, now, hist>>

NextGateOrder == CheckPreTradeConditionsCall

SpecGateOrder == InitGateOrder /\ [][NextGateOrder]_vars

-----------------------------------------------------------------------------
(* Checker runs: run_all_checks applied to arguments drawn at the start.    *)

\* Init with the call to make, and its arguments, in place of the last call
InitWith(calls) ==
    /\ portfolio = PortfolioInit
    /\ risk = RiskInit
    /\ trader = TraderInit
    /\ sg = SgInit
    /\ now = 0
    /\ last \in calls
    /\ hist = [pause_began |-> NoTime, closed_since |-> FALSE,
               cooldown_calls |-> [s \in Symbols |-> NoTime]]

Volumes == {0, 40, 100}

CheckerArguments ==
    [capital : {0, InitialCapital},
     daily_pnl : {0, -1000000, -3000000},
     consecutive_losses : {0, ConsecutiveLossPause},
     open_positions : {0, MaxOpenPositions},
     total_exposure : {0, MaxRiskTotal},
     spread : {SimulatedSpread, MaxSpread + 1},
     volume : Volumes,
     avg_volume : Volumes,
     is_paused : BOOLEAN]

RunAllChecksCall ==
    /\ last.op = "arguments"
    /\ last' = [op |-> "run_all_checks", args |-> last.args, result |-> RunAllChecks(last.args)]
    /\ UNCHANGED <<portfolio, risk, trader, sg, now, hist>>

NextChecker == RunAllChecksCall

SpecChecker ==
    InitWith({[op |-> "arguments", args |-> a, result |-> <<>>] : a \in CheckerArguments})
    /\ [][NextChecker]_vars

-----------------------------------------------------------------------------
(* Trailing runs: a position of either side on one symbol, ticks on both    *)
(* sides of its entry, a small and a large ATR.                             *)

TrailingPrices == {8000, 10000, 15000, 25000, 30000, 32000}

TrailingAtrs == {1000, 4000}

NextTrailing ==
    \/ \E signal \in TradingSignals : ArmSignal(ScenarioSymbol, signal)
    \/ ConfirmAndEnter(ScenarioSymbol, 20000)
    \/ ExitPosition(ScenarioSymbol, 20000, "manual")
    \/ UpdateCooldown(ScenarioSymbol)
    \/ \E price \in TrailingPrices, atr \in TrailingAtrs :
          UpdateTrailingStop(ScenarioSymbol, price, atr)

SpecTrailing == Init /\ [][NextTrailing]_vars

\* the integer part of the square root
Isqrt(n) == CHOOSE k \in 0..46340 : k * k <= n /\ (k + 1) * (k + 1) > n

RECURSIVE SumSeq(_)
SumSeq(seq) == IF seq = <<>> THEN 0 ELSE Head(seq) + SumSeq(Tail(seq))

\* np.std of a non-empty list of returns in ppm
StdDev(returns) ==
    LET n == Len(returns)
        mean == SumSeq(returns) \div n
        squares == [i \in 1..n |-> ((returns[i] - mean) * (returns[i] - mean)) \div n]
    IN  Isqrt(SumSeq(squares))

DefaultVolatility == 30000        \* volatility = 0.03
MinReturnsForVolatility == 5      \* len(returns) >= 5
ZScore95 == 1645                  \* z_95 = 1.645, in thousandths
MaxLossPercent == 20000           \* max_loss_percent = 0.02

\* RiskManager.calculate_var on the returns history over one day: the
\* volatility and the largest position the 95% VaR allows, which are what
\* calculate_position_size_advanced reads of it
CalculateVar(r, portfolio_value) ==
    LET returns == r.returns_history
        volatility == IF Len(returns) >= MinReturnsForVolatility THEN StdDev(returns)
                      ELSE DefaultVolatility
        max_position_95 ==
            IF volatility > 0
            THEN Ratio(MulPpm(portfolio_value, MaxLossPercent), MulMille(volatility, ZScore95))
            ELSE MulPpm(portfolio_value, MaxLossPercent)
    IN  [max_position_95 |-> Round2(max_position_95), volatility |-> Round2(volatility)]

\* the RiskManager as calculate_kelly_criterion reads it, under the default
\* configuration
KellySelf(r) ==
    [kelly_fraction |-> KellyFraction \div 1000, max_risk_per_trade |-> MaxRiskPerTrade,
     wins |-> r.wins, losses |-> r.losses,
     total_win_amount |-> r.total_win_amount, total_loss_amount |-> r.total_loss_amount]

\* the stop distance both sizing methods use: 2% of the entry when the stop is
\* on the entry
StopDistance(entry_price, stop_loss) ==
    IF entry_price = stop_loss THEN entry_price \div 50 ELSE Abs(entry_price - stop_loss)

\* the three candidate sizes of calculate_position_size_advanced
FixedSize(capital, stop_distance) ==
    RoundDiv(MulPpm(capital, MaxRiskPerTrade) * 10, stop_distance)

KellySize(r, capital, stop_distance) ==
    LET kelly_risk == CalculateKellyCriterion(KellySelf(r), NoTime, NoTime).recommended
    IN  IF kelly_risk > 0 THEN RoundDiv(MulPpm(capital, kelly_risk) * 10, stop_distance) ELSE 0

VarSize(r, capital, entry_price) ==
    RoundDiv(CalculateVar(r, capital).max_position_95 * 10, entry_price)

\* min(sizes) of a non-empty set
MinOf(sizes) == CHOOSE x \in sizes : \A y \in sizes : x <= y

\* RiskManager.calculate_position_size_advanced
CalculatePositionSizeAdvanced(r, capital, entry_price, stop_loss, method) ==
    LET stop_distance == StopDistance(entry_price, stop_loss)
        fixed_risk == MaxRiskPerTrade
        fixed_size == FixedSize(capital, stop_distance)
        kelly == CalculateKellyCriterion(KellySelf(r), NoTime, NoTime)
        kelly_risk == kelly.recommended
        kelly_size == KellySize(r, capital, stop_distance)
        var_size == VarSize(r, capital, entry_price)
        sizes == {x \in {fixed_size, kelly_size, var_size} : x > 0}
        position_size == IF method = "fixed" THEN fixed_size
                         ELSE IF method = "kelly" THEN kelly_size
                         ELSE IF method = "var" THEN var_size
                         ELSE IF sizes # {} THEN MinOf(sizes) ELSE fixed_size
        risk_percent == IF method = "fixed" THEN fixed_risk
                        ELSE IF method = "kelly" THEN kelly_risk
                        ELSE Ratio(Notional(stop_distance, position_size), capital)
        position_size_quote == Notional(entry_price, position_size)
        max_position_quote == MulPpm(capital, MaxRiskTotal)
        capped == position_size_quote > max_position_quote
        final_size == IF capped THEN RoundDiv(max_position_quote * 10, entry_price)
                      ELSE position_size
    IN  [size |-> final_size,
         size_quote |-> Round2(IF capped THEN max_position_quote ELSE position_size_quote),
         risk_amount |-> Round2(Notional(stop_distance, final_size)),
         risk_percent |-> Round2(IF capped
                                 THEN Ratio(Notional(stop_distance, final_size), capital)
                                 ELSE risk_percent)]

\* the default shares taken at 1R, 2R and 3R, in ppm
Level1Percent == 330000
Level2Percent == 330000
Level3Percent == 340000

\* get_scaling_out_levels written with the long branch alone
GetScalingOutLevelsLongOnly(entry_price, stop_loss, direction) ==
    LET risk_distance == Abs(entry_price - stop_loss)
    IN  <<[price |-> entry_price + risk_distance, percent |-> Level1Percent, r_multiple |-> 1],
          [price |-> entry_price + risk_distance * 2, percent |-> Level2Percent, r_multiple |-> 2],
          [price |-> entry_price + risk_distance * 3, percent |-> Level3Percent, r_multiple |-> 3]>>

\* RiskManager.get_scaling_out_levels with the default scaling_out shares:
\* level_1, level_2 and level_3 in that order
GetScalingOutLevels(entry_price, stop_loss, direction) ==
    LET risk_distance == Abs(entry_price - stop_loss)
        level_1 == IF direction = "long" THEN entry_price + risk_distance
                   ELSE entry_price - risk_distance
        level_2 == IF direction = "long" THEN entry_price + risk_distance * 2
                   ELSE entry_price - risk_distance * 2
        level_3 == IF direction = "long" THEN entry_price + risk_distance * 3
                   ELSE entry_price - risk_distance * 3
    IN  <<[price |-> level_1, percent |-> Level1Percent, r_multiple |-> 1],
          [price |-> level_2, percent |-> Level2Percent, r_multiple |-> 2],
          [price |-> level_3, percent |-> Level3Percent, r_multiple |-> 3]>>

-----------------------------------------------------------------------------
(* Sizing runs: calculate_position_size and calculate_kelly_criterion       *)
(* applied to arguments drawn at the start.                                 *)

\* capital 10000, 5000, 9999.76 and 123.45
SizingCapitals == {100000000, 50000000, 99997600, 1234500}

\* entry 100.00 and 200.00; the stop at 0, 50, 98, 99, 100 and 102 percent of it
SizingArguments ==
    {[capital |-> c, entry_price |-> e, stop_loss |-> (e \div 100) * pct] :
        c \in SizingCapitals, e \in {10000, 20000}, pct \in {0, 50, 98, 99, 100, 102}}

\* RiskManagers configured with a tenth, a quarter and a half of full Kelly
KellySelves ==
    {[kelly_fraction |-> f, max_risk_per_trade |-> MaxRiskPerTrade,
      wins |-> 0, losses |-> 0, total_win_amount |-> 0, total_loss_amount |-> 0] :
        f \in {100, 250, 500}}
    \cup {[kelly_fraction |-> 250, max_risk_per_trade |-> MaxRiskPerTrade,
           wins |-> 3, losses |-> 1, total_win_amount |-> 3000000, total_loss_amount |-> 2000000]}

KellyArguments ==
    {[self |-> k, win_rate |-> p, avg_win_loss_ratio |-> b] :
        k \in KellySelves, p \in {NoTime, 0, 300, 500, 900, 1000},
        b \in {NoTime, 0, 500, 1100, 2000}}

CalculatePositionSizeCall ==
    /\ last.op = "sizing arguments"
    /\ last' = [op |-> "calculate_position_size", args |-> last.args,
                result |-> CalculatePositionSize(last.args.capital, last.args.entry_price,
                                                 last.args.stop_loss)]
    /\ UNCHANGED <<portfolio, risk, trader, sg, now, hist>>

CalculateKellyCriterionCall ==
    /\ last.op = "kelly arguments"
    /\ last' = [op |-> "calculate_kelly_criterion", args |-> last.args,
                result |-> CalculateKellyCriterion(last.args.self, last.args.win_rate,
                                                   last.args.avg_win_loss_ratio)]
    /\ UNCHANGED <<portfolio, risk, trader, sg, now, hist>>

\* entries 100.00, 123.45 and 200.00 with stops on both sides, and on the entry
ScalingArguments ==
    {[entry_price |-> e, stop_loss |-> st, direction |-> d] :
        e \in {10000, 12345, 20000}, st \in {5000, 9800, 10200, 12345, 15000},
        d \in {"long", "short"}}

GetScalingOutLevelsCall ==
    /\ last.op = "scaling arguments"
    /\ last' = [op |-> "get_scaling_out_levels", args |-> last.args,
                result |-> GetScalingOutLevels(last.args.entry_price, last.args.stop_loss,
                                               last.args.direction)]
    /\ UNCHANGED <<portfolio, risk, trader, sg, now, hist>>

\* results fed to update_win_loss_stats, oldest first: wins and losses of about
\* 10 quote units
WinLossHistories ==
    {<<>>, <<-100000>>, <<100000, -100000>>, <<102000, -100000>>, <<110000, -100000>>,
     <<200000, -100000>>, <<300000, -100000, -100000, -100000>>}

\* returns fed to update_returns_history, as ratios in ppm
ReturnsHistories ==
    {<<>>, <<0, 0, 0, 0, 0>>, <<20000, -20000, 20000, -20000, 0>>}

RECURSIVE WithWinLoss(_, _)
WithWinLoss(r, pnls) ==
    IF pnls = <<>> THEN r ELSE WithWinLoss(UpdateWinLossStats(r, Head(pnls)), Tail(pnls))

RECURSIVE WithReturns(_, _)
WithReturns(r, returns) ==
    IF returns = <<>> THEN r
    ELSE WithReturns(UpdateReturnsHistory(r, Head(returns)), Tail(returns))

AdvancedArguments ==
    {[self |-> WithReturns(WithWinLoss(RiskInit, w), h), capital |-> c,
      entry_price |-> e[1], stop_loss |-> e[2], method |-> m] :
        w \in WinLossHistories, h \in ReturnsHistories,
        c \in {InitialCapital, 50000000},
        e \in {<<10000, 9800>>, <<10000, 5000>>, <<20000, 30000>>, <<10000, 10000>>},
        m \in {"fixed", "kelly", "var", "combined"}}

CalculatePositionSizeAdvancedCall ==
    /\ last.op = "advanced arguments"
    /\ last' = [op |-> "calculate_position_size_advanced", args |-> last.args,
                result |-> CalculatePositionSizeAdvanced(last.args.self, last.args.capital,
                                                         last.args.entry_price,
                                                         last.args.stop_loss, last.args.method)]
    /\ UNCHANGED <<portfolio, risk, trader, sg, now, hist>>

NextSizing ==
    \/ CalculatePositionSizeCall
    \/ CalculateKellyCriterionCall
    \/ GetScalingOutLevelsCall
    \/ CalculatePositionSizeAdvancedCall

SpecSizing ==
    InitWith({[op |-> "sizing arguments", args |-> a, result |-> <<>>] : a \in SizingArguments}
             \cup {[op |-> "kelly arguments", args |-> a, result |-> <<>>] : a \in KellyArguments}
             \cup {[op |-> "scaling arguments", args |-> a, result |-> <<>>] :
                      a \in ScalingArguments}
             \cup {[op |-> "advanced arguments", args |-> a, result |-> <<>>] :
                      a \in AdvancedArguments})
    /\ [][NextSizing]_vars

-----------------------------------------------------------------------------
(* SignalGenerator scoring.  Scores are in hundredths of a point, the ADX in *)
(* tenths, strengths in ten-thousandths before _signal_to_dict rounds them  *)
(* and in hundredths after.                                                 *)

MinStrengthScore == 50
MinBars == 50

Points(flag, points) == IF flag THEN points ELSE 0

\* min(10, (adx - 20) / 3) when adx > 20
AdxBonus(adx) == IF adx > 200 THEN Min(1000, ((adx - 200) * 10) \div 3) ELSE 0

\* SignalGenerator._calculate_signal_strength on the confirmations the last bar
\* gives for one direction
CalculateSignalStrengthUncapped(c, adx) ==
    Points(c.trend_aligned, 2500) + Points(c.rsi_confirms, 1500)
    + Points(c.macd_confirms, 1000) + Points(c.volume_above_avg, 2000)
    + Points(c.htf_aligned, 2000) + AdxBonus(adx)
    + Points(c.pattern, 500) + Points(c.divergence, 500)
    + Points(c.order_block, 250) + Points(c.fvg, 250) + Points(c.stoch, 500)

CalculateSignalStrength(c, adx) == Min(10000, CalculateSignalStrengthUncapped(c, adx))

\* _check_long_signal / _check_short_signal: the TradingSignal, if any
CheckSignal(type, c, adx) ==
    LET score == CalculateSignalStrength(c, adx)
    IN  IF score < MinStrengthScore * 100 THEN <<>>
        ELSE <<[type |-> type, strength |-> score, strength_score |-> score \div 100]>>

\* the whole scores s for which the float (s + 0.5) / 100.0 lies below the tie
\* and round(., 2) goes down
TiesRoundedDown == (56..62) \cup (69..74) \cup (81..86) \cup (94..99)

\* round(strength, 2), in hundredths
RoundStrength(strength) ==
    IF strength % 100 = 50 /\ (strength \div 100) \in TiesRoundedDown
    THEN strength \div 100
    ELSE (strength + 50) \div 100

\* _signal_to_dict
SignalToDict(signal) ==
    [type |-> signal.type, strength |-> RoundStrength(signal.strength),
     strength_score |-> signal.strength_score,
     mtf_aligned |-> None, mtf_trend |-> None]

RECURSIVE MapSeq(_, _)
MapSeq(Op(_), seq) == IF seq = <<>> THEN <<>> ELSE <<Op(Head(seq))>> \o MapSeq(Op, Tail(seq))

\* generate_all_signals: nothing for a short frame, nothing when a step raises
GenerateAllSignals(frame) ==
    IF frame.bars < MinBars THEN <<>>
    ELSE IF frame.raises # None THEN <<>>
    ELSE MapSeq(SignalToDict, CheckSignal("LONG", frame.long, frame.adx))
         \o MapSeq(SignalToDict, CheckSignal("SHORT", frame.short, frame.adx))

\* the end of analyze_multi_timeframe: alignment and bonus from the two trends
AnalyzeMultiTimeframe(htf, conf) ==
    IF htf = "BULLISH" \/ htf = "BEARISH"
    THEN IF conf = htf THEN [alignment |-> htf, mtf_score_bonus |-> 20]
                       ELSE [alignment |-> "NEUTRAL", mtf_score_bonus |-> 10]
    ELSE IF conf # "NEUTRAL" THEN [alignment |-> conf, mtf_score_bonus |-> 5]
                             ELSE [alignment |-> "NEUTRAL", mtf_score_bonus |-> 0]

\* the loop of generate_signals_with_mtf over the signals of the primary frame
RECURSIVE FilterWithMtf(_, _)
FilterWithMtf(signals, mtf) ==
    IF signals = <<>> THEN <<>>
    ELSE LET signal == Head(signals)
             rest == FilterWithMtf(Tail(signals), mtf)
             aligned == \/ mtf.alignment = "BULLISH" /\ signal.type = "LONG"
                        \/ mtf.alignment = "BEARISH" /\ signal.type = "SHORT"
             strength_score == Min(100, signal.strength_score + mtf.mtf_score_bonus)
         IN  IF aligned
             THEN <<[signal EXCEPT !.strength_score = strength_score,
                                   !.strength = strength_score,
                                   !.mtf_aligned = "True",
                                   !.mtf_trend = mtf.alignment]>> \o rest
             ELSE IF mtf.alignment = "NEUTRAL"
             THEN <<[signal EXCEPT !.mtf_aligned = "False", !.mtf_trend = "NEUTRAL"]>> \o rest
             ELSE rest

GenerateSignalsWithMtf(frame, htf, conf) ==
    FilterWithMtf(GenerateAllSignals(frame), AnalyzeMultiTimeframe(htf, conf))

-----------------------------------------------------------------------------
(* Scoring runs: both generators applied to frames drawn at the start.      *)

Confirmations ==
    {[trend_aligned |-> t, rsi_confirms |-> r, macd_confirms |-> m, volume_above_avg |-> v,
      htf_aligned |-> h, pattern |-> b[1], divergence |-> b[2], order_block |-> b[3],
      fvg |-> b[4], stoch |-> b[5]] :
        t \in BOOLEAN, r \in BOOLEAN, m \in BOOLEAN, v \in BOOLEAN, h \in BOOLEAN,
        b \in {<<FALSE, FALSE, FALSE, FALSE, FALSE>>, <<FALSE, FALSE, TRUE, FALSE, FALSE>>,
               <<TRUE, FALSE, FALSE, FALSE, TRUE>>, <<TRUE, TRUE, TRUE, TRUE, TRUE>>}}

\* the confirmations the other direction is given: RSI, volume and HTF alone
WeakConfirmations ==
    {c \in Confirmations :
        /\ ~c.trend_aligned /\ ~c.macd_confirms /\ ~c.pattern /\ ~c.order_block
        /\ c.rsi_confirms /\ c.volume_above_avg
        /\ c.htf_aligned}

\* ADX 15, 21.8, 26 and 50
Adxs == {150, 218, 260, 500}

Frames ==
    {[bars |-> MinBars, raises |-> None, long |-> c, short |-> w, adx |-> adx] :
        c \in Confirmations, w \in WeakConfirmations, adx \in Adxs}
    \cup {[bars |-> MinBars, raises |-> None, long |-> w, short |-> c, adx |-> adx] :
        c \in Confirmations, w \in WeakConfirmations, adx \in {218}}
    \cup {[bars |-> b, raises |-> e, long |-> c, short |-> c, adx |-> 500] :
        b \in {MinBars - 1, MinBars},
        e \in {None, "indicators", "patterns", "divergences", "scoring"},
        c \in {x \in Confirmations : x.trend_aligned /\ x.rsi_confirms /\ x.macd_confirms
                                      /\ x.volume_above_avg /\ x.htf_aligned /\ x.divergence}}

Trends == {"BULLISH", "BEARISH", "NEUTRAL"}

GenerateAllSignalsCall ==
    /\ last.op = "frame"
    /\ last' = [op |-> "generate_all_signals", args |-> last.args,
                result |-> GenerateAllSignals(last.args)]
    /\ UNCHANGED <<portfolio, risk, trader, sg, now, hist>>

GenerateSignalsWithMtfCall ==
    /\ last.op = "frame"
    /\ \E htf \in Trends, conf \in Trends :
          last' = [op |-> "generate_signals_with_mtf",
                   args |-> [frame |-> last.args, htf |-> htf, conf |-> conf],
                   result |-> GenerateSignalsWithMtf(last.args, htf, conf)]
    /\ UNCHANGED <<portfolio, risk, trader, sg, now, hist>>

NextScoring ==
    \/ GenerateAllSignalsCall
    \/ GenerateSignalsWithMtfCall

SpecScoring ==
    InitWith({[op |-> "frame", args |-> f, result |-> <<>>] : f \in Frames})
    /\ [][NextScoring]_vars

-----------------------------------------------------------------------------
(* data_update_loop: one pass over the configured symbols per cycle.  The   *)
(* loop's position is kept in last: the cycle, the symbols still to visit,  *)
(* the symbols visited with what failed for each, the message broadcast.    *)

MaxCycles == 2

LoopSymbols == <<"BTC/USDT", "ETH/USDT">>

\* what fetch_multi_timeframe gives: an exception, no data, a primary frame too
\* short, or a usable frame
FetchOutcomes == {"raises", "empty", "short", "ok"}

\* what fetch_ticker gives
TickerOutcomes == {"raises", "ok"}

LoopFrames == {f \in Frames : f.bars = MinBars /\ f.adx = 500 /\ f.long = f.short}

\* the loop body with the fetch left outside any try
ProcessSymbolUnguarded(symbol, fetch, frame, ticker) ==
    IF fetch = "raises" THEN [escaped |-> TRUE, failed |-> "fetch", message |-> <<>>]
    ELSE IF fetch \in {"empty", "short"}
    THEN [escaped |-> FALSE, failed |-> None, message |-> <<>>]
    ELSE [escaped |-> FALSE,
          failed |-> IF frame.raises # None THEN "signals"
                     ELSE IF ticker = "raises" THEN "ticker" ELSE None,
          message |-> <<[type |-> "update", symbol |-> symbol,
                         ticker |-> [symbol |-> symbol,
                                     last |-> IF ticker = "raises" THEN 0 ELSE 20000],
                         signals |-> GenerateAllSignals(frame)]>>]

\* the body of the for loop of data_update_loop for one symbol: whether an
\* exception leaves the body, what failed, and the message broadcast
ProcessSymbol(symbol, fetch, frame, ticker) ==
    IF fetch = "raises" THEN [escaped |-> FALSE, failed |-> "fetch", message |-> <<>>]
    ELSE IF fetch = "empty" THEN [escaped |-> FALSE, failed |-> None, message |-> <<>>]
    ELSE IF fetch = "short" THEN [escaped |-> FALSE, failed |-> None, message |-> <<>>]
    ELSE LET signals == GenerateAllSignals(frame)
             price == IF ticker = "raises" THEN 0 ELSE 20000
         IN  [escaped |-> FALSE,
              failed |-> IF frame.raises # None THEN "signals"
                         ELSE IF ticker = "raises" THEN "ticker" ELSE None,
              message |-> <<[type |-> "update", symbol |-> symbol,
                             ticker |-> [symbol |-> symbol, last |-> price],
                             signals |-> signals]>>]

LoopStart == [op |-> "cycle", cycle |-> 0, pending |-> LoopSymbols, visited |-> <<>>,
              message |-> <<>>]

\* one iteration of the for loop; an exception leaving the body ends the pass
LoopStep(fetch, frame, ticker) ==
    /\ last.op \in {"cycle", "symbol"}
    /\ last.pending # <<>>
    /\ LET symbol == Head(last.pending)
           done == ProcessSymbol(symbol, fetch, frame, ticker)
       IN  last' = [op |-> IF done.escaped THEN "error" ELSE "symbol",
                    cycle |-> last.cycle,
                    pending |-> IF done.escaped THEN <<>> ELSE Tail(last.pending),
                    visited |-> Append(last.visited, [symbol |-> symbol, failed |-> done.failed]),
                    message |-> done.message]
    /\ UNCHANGED <<portfolio, risk, trader, sg, now, hist>>

\* asyncio.sleep(update_interval), at the end of the pass or in the handler of
\* the outer try, and the start of the next pass
LoopSleep ==
    /\ last.op \in {"cycle", "symbol", "error"}
    /\ last.pending = <<>>
    /\ last' = [LoopStart EXCEPT !.cycle = last.cycle + 1]
    /\ UNCHANGED <<portfolio, risk, trader, sg, now, hist>>

NextLoop ==
    \/ \E fetch \in FetchOutcomes, frame \in LoopFrames, ticker \in TickerOutcomes :
          LoopStep(fetch, frame, ticker)
    \/ /\ last.op \in {"cycle", "symbol", "error"}
       /\ last.cycle < MaxCycles
       /\ LoopSleep
    \/ GenerateAllSignalsCall

SpecLoop ==
    InitWith({LoopStart} \cup {[op |-> "frame", args |-> f, result |-> <<>>] : f \in Frames})
    /\ [][NextLoop]_vars

-----------------------------------------------------------------------------
(* Concurrent runs: REST and WebSocket requests in flight together on the    *)
(* event loop.  A request is received, which is where its handler can be     *)
(* suspended (reading the message, fetching the tickers), and later its     *)
(* PaperTrader call runs.  last carries the requests in flight, the replies  *)
(* sent and the number of requests received; a reply names the requests that *)
(* were in flight when its call ran.                                         *)

MaxRequests == 4

\* a REST request and a WebSocket message, each served by its own task
Tasks == {"rest", "ws"}

\* the requests a handler serves: /execute and execute_trade, /close/{id} and
\* close_position for an id issued so far, and /close-all over REST only
RequestsOf(task) ==
    {[kind |-> "execute", signal |-> sig, id |-> NoId, price |-> 0] : sig \in GateSignals}
    \cup {[kind |-> "close", signal |-> EmptySignal, id |-> id, price |-> 20000] :
             id \in 1..(trader.next_id - 1)}
    \cup (IF task = "ws" THEN {}
          ELSE {[kind |-> "close_all", signal |-> EmptySignal, id |-> NoId,
                 price |-> 20000]})

World == [portfolio |-> portfolio, risk |-> risk, trader |-> trader]

\* a PaperTrader call split by a suspension, working on the state read when the
\* request came in
HandlerWorldAtReceipt(current, at_receipt) == at_receipt

\* the state a PaperTrader call works on: execute_signal, close_position_manual
\* and close_all_positions hold no await that suspends, so each reads and writes
\* the state as it is when the call runs
HandlerWorld(current, at_receipt) == current

\* the PaperTrader call of a request on the world w at time t: the world after
\* it and the reply
Serve(w, t, request) ==
    IF request.kind = "execute"
    THEN CHOOSE served \in
            {[portfolio |-> done.portfolio, risk |-> done.risk, trader |-> done.trader,
              status |-> done.status, reason |-> done.reason, id |-> done.id,
              gate_reason |-> done.gate_reason, closed |-> <<>>] :
                done \in {ExecuteSignalOn(w, t, request.signal)}} : TRUE
    ELSE LET start == [portfolio |-> w.portfolio, risk |-> w.risk, closed |-> <<>>]
             done == IF request.kind = "close"
                     THEN CloseManual(start, t, request.id, request.price)
                     ELSE CloseAllFrom(start, t, KeysInOrder(DOMAIN w.portfolio.positions),
                                       [s \in {"BTC/USDT"} |-> request.price])
             found == request.kind = "close_all" \/ request.id \in DOMAIN w.portfolio.positions
         IN  [portfolio |-> done.portfolio, risk |-> done.risk, trader |-> w.trader,
              status |-> IF found THEN "closed" ELSE None,
              reason |-> IF found THEN "manual" ELSE "Position not found",
              id |-> request.id,
              gate_reason |-> None,
              closed |-> done.closed]

ConcurrentStart == [op |-> "start", inflight |-> <<>>, replies |-> <<>>, requests |-> 0]

\* a request reaches its handler
Receive(task, request) ==
    /\ task \notin DOMAIN last.inflight
    /\ last' = [last EXCEPT !.op = "receive",
                            !.inflight = Put(@, task, [request |-> request, seen |-> World,
                                                       number |-> last.requests + 1]),
                            !.requests = @ + 1]
    /\ UNCHANGED <<portfolio, risk, trader, sg, now, hist>>

\* the handler's PaperTrader call runs and the reply is sent
Run(task) ==
    /\ task \in DOMAIN last.inflight
    /\ \E request \in {last.inflight[task].request} :
       \E done \in {Serve(HandlerWorld(World, last.inflight[task].seen), now, request)} :
           /\ portfolio' = done.portfolio
           /\ risk' = done.risk
           /\ trader' = done.trader
           /\ hist' = IF request.kind = "execute"
                      THEN HistAfterGate([reason |-> done.gate_reason])
                      ELSE HistAfterClose(Len(done.closed))
           /\ last' = [last EXCEPT
                          !.op = "reply",
                          !.inflight = Del(@, task),
                          !.replies = Append(@, [task |-> task, kind |-> request.kind,
                                                 number |-> last.inflight[task].number,
                                                 status |-> done.status, reason |-> done.reason,
                                                 id |-> done.id, closed |-> done.closed,
                                                 open_before |-> Cardinality(DOMAIN portfolio.positions),
                                                 overlapped |-> {last.inflight[other].number :
                                                                   other \in DOMAIN last.inflight \ {task}}])]
    /\ UNCHANGED <<sg, now>>

NextConcurrent ==
    \/ \E task \in Tasks : \E request \in RequestsOf(task) :
          /\ last.requests < MaxRequests
          /\ Receive(task, request)
    \/ \E task \in Tasks : Run(task)

SpecConcurrent == InitWith({ConcurrentStart}) /\ [][NextConcurrent]_vars

-----------------------------------------------------------------------------
(* Close-all runs: positions opened by execute_signal and the /close-all     *)
(* route, which fetches a ticker per symbol and closes at the prices read.   *)

\* what the exchange answers to one fetch_ticker: a last price, or a failure on
\* every attempt
TickerResponses ==
    {[ok |-> TRUE, last |-> 20000], [ok |-> TRUE, last |-> 25000], [ok |-> FALSE, last |-> 0]}

\* DataFetcher.fetch_ticker: the ticker read, or the default record once the
\* attempts have failed
FetchTicker(symbol, response) ==
    IF response.ok
    THEN [symbol |-> symbol, last |-> response.last, error |-> FALSE]
    ELSE [symbol |-> symbol, last |-> 0, error |-> TRUE]

\* DataFetcher.fetch_all_tickers: every result that is not an exception
FetchAllTickers(responses) == [symbol \in Symbols |-> FetchTicker(symbol, responses[symbol])]

\* prices = {t['symbol']: t['last'] for t in tickers.values()}
RoutePrices(tickers) ==
    [symbol \in {tickers[k].symbol : k \in DOMAIN tickers} |->
        tickers[CHOOSE k \in DOMAIN tickers : tickers[k].symbol = symbol].last]

\* the /close-all route
CloseAllRoute(responses) == CloseAllPositions(RoutePrices(FetchAllTickers(responses)))

NextCloseAll ==
    \/ \E signal \in LedgerSignals :
          /\ trader.signal_history < MaxLedgerSignals
          /\ ExecuteSignal(signal)
    \/ \E responses \in [Symbols -> TickerResponses] : CloseAllRoute(responses)

SpecCloseAll == Init /\ [][NextCloseAll]_vars

-----------------------------------------------------------------------------
(* Properties.                                                              *)

OpenCount == Cardinality(DOMAIN portfolio.positions)

\* C1: the number of open positions never exceeds max_open_positions, and an
\* execute_signal call made while the count is at the limit returns 'rejected'
\* (gate runs: every signal carries all its fields, so every call reaches the
\* gate).
C1_MaxOpenPositions ==
    /\ OpenCount <= MaxOpenPositions
    /\ (last.op = "execute_signal" /\ last.open_before >= MaxOpenPositions)
          => last.status = "rejected"

\* C1's case: the book is full and the call that found it full was rejected
\* by the position limit
C1_RejectedAtLimit ==
    /\ OpenCount = MaxOpenPositions
    /\ last.op = "execute_signal"
    /\ last.open_before = MaxOpenPositions
    /\ last.status = "rejected"
    /\ last.reason = "max_positions"

\* the checks of check_pre_trade_conditions other than the pause and the
\* consecutive-loss count, on the present state
OtherChecksPass ==
    /\ ~(risk.daily_pnl < 0 /\ portfolio.capital > 0
         /\ Ratio(Abs(risk.daily_pnl), portfolio.capital) > DailyLossLimit)
    /\ OpenCount < MaxOpenPositions
    /\ GetExposure(portfolio) < MaxRiskTotal
    /\ SimulatedSpread <= MaxSpread

\* C2: once pause_duration has elapsed since the pause began, with no trade
\* closed in between, an execute_signal call whose other checks pass is not
\* rejected.
C2_PauseLifts ==
    (/\ last.op = "execute_signal"
     /\ hist.pause_began # NoTime
     /\ ~hist.closed_since
     /\ last.at >= hist.pause_began + PauseDurationMinutes
     /\ OtherChecksPass)
        => last.status # "rejected"

\* the signal stored for the symbol in armed_signals, if any
ArmedSignalOf(g, symbol) ==
    IF symbol \in DOMAIN g.armed_signals THEN <<g.armed_signals[symbol]>> ELSE <<>>

\* C3: arm_signal on a symbol that is ARMED or in COOLDOWN leaves the symbol's
\* state, its stored armed signal and its cooldown counter unchanged.
C3_ArmIgnored ==
    [][\A s \in Symbols :
          (/\ last'.op = "arm_signal"
           /\ last'.symbol = s
           /\ GetState(sg, s) \in {"ARMED", "COOLDOWN"})
             => /\ GetState(sg', s) = GetState(sg, s)
                /\ ArmedSignalOf(sg', s) = ArmedSignalOf(sg, s)
                /\ CooldownBars(sg', s) = CooldownBars(sg, s)]_vars

\* C4: every symbol is in one of the four states (SCANNING when never seen), and
\* k update_cooldown calls after exit_position, with no other transition
\* function called on the symbol in between, leave the symbol in COOLDOWN with
\* counter cooldown_duration - k while k < cooldown_duration, and in SCANNING
\* with counter 0 when k = cooldown_duration.
C4_CooldownCountsDown ==
    \A s \in Symbols :
        /\ GetState(sg, s) \in TradingState
        /\ (s \notin DOMAIN sg.states => GetState(sg, s) = "SCANNING")
        /\ LET k == hist.cooldown_calls[s]
           IN  k # NoTime =>
                  IF k < CooldownDuration
                  THEN GetState(sg, s) = "COOLDOWN" /\ CooldownBars(sg, s) = CooldownDuration - k
                  ELSE GetState(sg, s) = "SCANNING" /\ CooldownBars(sg, s) = 0

\* C4's case: the fifth update_cooldown call after an exit has just returned the
\* symbol to SCANNING
C4_FifthCallScans ==
    \E s \in Symbols :
        /\ last.op = "update_cooldown"
        /\ last.symbol = s
        /\ hist.cooldown_calls[s] = CooldownDuration
        /\ GetState(sg, s) = "SCANNING"
        /\ CooldownBars(sg, s) = 0

\* C6: a symbol leaves IN_POSITION only through exit_position, and then to
\* COOLDOWN: no call of arm_signal, cancel_armed_signal, confirm_and_enter or
\* update_cooldown takes it out of IN_POSITION.
C6_OnlyExitLeavesPosition ==
    [][\A s \in Symbols :
          (GetState(sg, s) = "IN_POSITION" /\ GetState(sg', s) # "IN_POSITION")
             => (last'.op = "exit_position" /\ GetState(sg', s) = "COOLDOWN")]_vars

\* the ledger holds an open Position on the symbol
LedgerHolds(symbol) ==
    \E id \in DOMAIN portfolio.positions : portfolio.positions[id].symbol = symbol

\* C5: Scenario E end to end: a symbol the state machine has moved to
\* IN_POSITION has a Position open in the ledger, and when update_prices closes
\* that Position at its stop (reason stop_loss) the symbol is in COOLDOWN with
\* counter cooldown_duration.
C5_ScenarioE ==
    /\ GetState(sg, ScenarioSymbol) = "IN_POSITION" => LedgerHolds(ScenarioSymbol)
    /\ (/\ last.op = "update_prices"
        /\ \E i \in DOMAIN last.closed : last.closed[i].close_reason = "stop_loss")
          => /\ GetState(sg, ScenarioSymbol) = "COOLDOWN"
             /\ CooldownBars(sg, ScenarioSymbol) = CooldownDuration

\* C7: every open Position has size > 0 and its stop and target on the two
\* sides of its (slippage-adjusted) entry price: stop < entry < target when
\* long, target < entry < stop when short.
C7_PositionWellFormed ==
    \A id \in DOMAIN portfolio.positions :
        LET pos == portfolio.positions[id]
        IN  /\ pos.size > 0
            /\ IF pos.direction = "long"
               THEN pos.stop_loss < pos.entry_price /\ pos.entry_price < pos.take_profit
               ELSE pos.take_profit < pos.entry_price /\ pos.entry_price < pos.stop_loss

ClosedIds == {portfolio.closed_trades[i].id : i \in DOMAIN portfolio.closed_trades}

\* the ids a step removes from the open map
Removed == (DOMAIN portfolio.positions) \ (DOMAIN portfolio'.positions)

\* C8: close_position on an open id deletes that id and appends one record for
\* it; on an id that is not open it returns an error and leaves capital,
\* positions, closed_trades and stats unchanged; every step appends as many
\* closed-trade records as it removes positions, so the number of records is
\* the number of positions opened less the number still open, and no id is
\* recorded twice or recorded while open.
C8_CloseOnce ==
    /\ [](/\ Len(portfolio.closed_trades) = (trader.next_id - 1) - OpenCount
          /\ Cardinality(ClosedIds) = Len(portfolio.closed_trades)
          /\ ClosedIds \cap DOMAIN portfolio.positions = {})
    /\ [][/\ Len(portfolio'.closed_trades) - Len(portfolio.closed_trades)
                = Cardinality(Removed)
          /\ (last'.op = "close_position" /\ last'.id \in DOMAIN portfolio.positions)
                => /\ Removed = {last'.id}
                   /\ portfolio'.closed_trades[Len(portfolio'.closed_trades)].id = last'.id
          /\ (/\ last'.op \in {"close_position", "close_position_manual"}
              /\ last'.id \notin DOMAIN portfolio.positions)
                => /\ last'.status = None
                   /\ portfolio'.capital = portfolio.capital
                   /\ portfolio'.positions = portfolio.positions
                   /\ portfolio'.closed_trades = portfolio.closed_trades
                   /\ portfolio'.stats = portfolio.stats]_vars

\* C8's case: close_position has just been called again on an id it had closed
\* before, and returned the error
C8_ClosedTwice ==
    /\ last.op = "close_position"
    /\ last.id \in ClosedIds
    /\ last.status = None
    /\ last.reason = ErrorResult.error

\* (exit - entry) x size for a long and (entry - exit) x size for a short, from
\* the fields of a closed-trade record
RecordGross(trade) ==
    IF trade.direction = "long"
    THEN RoundDiv((trade.exit_price - trade.entry_price) * trade.size, 10)
    ELSE RoundDiv((trade.entry_price - trade.exit_price) * trade.size, 10)

\* gross less fees, summed over the trades a step closes: the i-th record the
\* step appends goes with the i-th close the call reports
RECURSIVE NetOfClosed(_, _, _)
NetOfClosed(trades, closes, i) ==
    IF i > Len(closes) THEN 0
    ELSE RecordGross(trades[Len(trades) - Len(closes) + i]) - closes[i].fees
         + NetOfClosed(trades, closes, i + 1)

\* C9: capital is changed only by close_position, by exactly net_pnl =
\* gross_pnl - fees; a step that closes nothing (open_position,
\* update_position_price, check_stops reaching no stop) leaves capital unchanged;
\* capital = initial_capital + the sum of net_pnl over all closed trades (the
\* ledger's running total_pnl; the records themselves keep 2-decimal roundings).
C9_CapitalIsRealizedPnl ==
    /\ [](portfolio.capital = InitialCapital + portfolio.stats.total_pnl)
    /\ [][/\ Len(portfolio'.closed_trades) = Len(portfolio.closed_trades) + Len(last'.closed)
          /\ portfolio'.capital - portfolio.capital
                = NetOfClosed(portfolio'.closed_trades, last'.closed, 1)]_vars

\* C9's case: a long and a short have been closed, fees were charged, and
\* capital has moved
C9_BothSidesClosed ==
    /\ \E i, j \in DOMAIN portfolio.closed_trades :
          /\ portfolio.closed_trades[i].direction = "long"
          /\ portfolio.closed_trades[j].direction = "short"
    /\ last.closed # <<>>
    /\ last.closed[1].fees > 0
    /\ portfolio.capital # InitialCapital
    /\ OpenCount = 0

\* the pnl of the open positions, added up id by id
RECURSIVE PnlOfOpen(_)
PnlOfOpen(ids) ==
    IF ids = <<>> THEN 0
    ELSE portfolio.positions[Head(ids)].pnl + PnlOfOpen(Tail(ids))

CapitalPlusOpenPnl == portfolio.capital + PnlOfOpen(KeysInOrder(DOMAIN portfolio.positions))

\* C10 as stated: get_equity returns, and get_summary reports, capital plus the
\* sum of the pnl of the open positions.
C10_SummaryReportsEquity ==
    /\ GetEquity(portfolio) = CapitalPlusOpenPnl
    /\ GetSummary(portfolio).equity = CapitalPlusOpenPnl

\* C10: after every ledger mutation get_equity returns capital plus the sum of
\* the pnl of the open positions, and get_summary reports that value rounded to
\* 2 decimals.
C10_EquityIsCapitalPlusOpenPnl ==
    /\ GetEquity(portfolio) = CapitalPlusOpenPnl
    /\ GetSummary(portfolio).equity = Round2(CapitalPlusOpenPnl)

\* C10's case: a position is open with a pnl, and the equity has digits below
\* the second decimal
C10_OpenPnlBelowCents ==
    /\ last.op # "init"
    /\ \E id \in DOMAIN portfolio.positions : portfolio.positions[id].pnl # 0
    /\ CapitalPlusOpenPnl % 100 # 0

\* the trades the PaperTrader has closed and reported to the RiskManager
ReportedTrades == risk.trade_history

\* C11: after every position closed through the PaperTrader the result is fed
\* into the Kelly/VaR statistics: wins + losses is the number of closed trades
\* with non-zero net P&L, the cumulative amounts add up to their P&L, and
\* len(returns_history) = min(252, number of closed trades).
C11_StatsFedBack ==
    /\ risk.wins + risk.losses
          = Cardinality({i \in DOMAIN ReportedTrades : ReportedTrades[i].pnl # 0})
    /\ (ReportedTrades # <<>> /\ ReportedTrades[Len(ReportedTrades)].pnl # 0)
          => risk.total_win_amount + risk.total_loss_amount > 0
    /\ Len(risk.returns_history) = Min(ReturnsHistoryCap, Len(ReportedTrades))

\* a step is an execute_signal call that returned status 'rejected'
RejectedStep == last'.op = "execute_signal" /\ last'.status = "rejected"

\* the ledger and the trade counters a rejection leaves alone
RejectionFrame ==
    /\ portfolio'.capital = portfolio.capital
    /\ portfolio'.positions = portfolio.positions
    /\ portfolio'.closed_trades = portfolio.closed_trades
    /\ portfolio'.stats = portfolio.stats
    /\ risk'.daily_pnl = risk.daily_pnl
    /\ risk'.consecutive_losses = risk.consecutive_losses

C13_IncompleteRejected ==
    /\ [](last.op = "execute_signal" => last.status \in {"executed", "rejected"})
    /\ [][(last'.op = "execute_signal" /\ trader'.signal_history = trader.signal_history)
             => /\ last'.status = "rejected"
                /\ portfolio' = portfolio
                /\ risk' = risk]_vars

\* max_risk_total with the slippage fraction on top
ExposureLimit == MaxRiskTotal + MulPpm(MaxRiskTotal, Slippage)

\* C14: right after an execute_signal that returns 'executed', get_exposure()
\* is at most max_risk_total, up to the slippage fraction, whatever positions
\* were already open.
C14_ExposureWithinLimit ==
    (last.op = "execute_signal" /\ last.status = "executed")
        => GetExposure(portfolio) <= ExposureLimit

\* the number of trades with pnl < 0 at the end of a trade history, back to the
\* most recent trade with pnl >= 0
RECURSIVE TrailingLosses(_)
TrailingLosses(history) ==
    IF history = <<>> THEN 0
    ELSE IF history[Len(history)].pnl >= 0 THEN 0
    ELSE 1 + TrailingLosses(SubSeq(history, 1, Len(history) - 1))

\* C15: consecutive_losses is the number of trades with pnl < 0 recorded since
\* the most recent trade with pnl >= 0 (or since start), and whenever it is at
\* least consecutive_loss_pause, check_pre_trade_conditions denies the trade,
\* whatever the position count.
C15_ConsecutiveLosses ==
    /\ risk.consecutive_losses = TrailingLosses(risk.trade_history)
    /\ risk.consecutive_losses >= ConsecutiveLossPause =>
          /\ \A n \in GateCounts :
                ~CheckPreTradeConditions(risk, now, InitialCapital + risk.daily_pnl,
                                         n, 0, SimulatedSpread).allowed
          /\ last.op = "check_pre_trade_conditions" => last.status = "denied"

\* C15's case: three losses in a row after a trade that was not a loss, and the
\* gate has just denied a trade
C15_DeniedAfterThree ==
    /\ risk.consecutive_losses = ConsecutiveLossPause
    /\ Len(risk.trade_history) > ConsecutiveLossPause
    /\ \E i \in DOMAIN risk.trade_history : risk.trade_history[i].pnl = 0
    /\ last.op = "check_pre_trade_conditions"
    /\ last.status = "denied"

\* C16: run_all_checks returns all_passed = True exactly when none of the six
\* critical checks (pause, daily loss, consecutive losses, open positions,
\* exposure, spread) fails, and with the other arguments fixed all_passed is the
\* same for every volume and avg_volume, avg_volume = 0 included.
C16_LiquidityAdvisory ==
    last.op = "run_all_checks" =>
        LET a == last.args
            daily_loss == /\ a.daily_pnl < 0
                          /\ a.capital > 0
                          /\ Ratio(Abs(a.daily_pnl), a.capital) >= DailyLossLimit
        IN  /\ last.result.all_passed
                <=> /\ ~a.is_paused
                    /\ ~daily_loss
                    /\ a.consecutive_losses < ConsecutiveLossPause
                    /\ a.open_positions < MaxOpenPositions
                    /\ a.total_exposure < MaxRiskTotal
                    /\ a.spread <= MaxSpread
            /\ last.result.all_passed <=> \A i \in 1..6 : last.result.results[i].passed
            /\ \A v \in Volumes, av \in Volumes :
                  RunAllChecks([a EXCEPT !.volume = v, !.avg_volume = av]).all_passed
                     = last.result.all_passed

\* C16's case: every critical check passes, the liquidity check fails for want
\* of an average volume, and the trade is allowed
C16_AllowedWithoutVolume ==
    /\ last.op = "run_all_checks"
    /\ last.args.avg_volume = 0
    /\ ~last.result.results[7].passed
    /\ last.result.all_passed

\* the stop of the position stored for the symbol, if any
StopOf(g, symbol) ==
    IF symbol \in DOMAIN g.position_info THEN <<g.position_info[symbol].stop_loss>> ELSE <<>>

\* C17: every change update_trailing_stop makes to a position's stop moves it
\* strictly higher for a long and strictly lower for a short, and is made only
\* in a call where the price is at least one stop-distance in profit (long:
\* current_price >= entry + |entry - stop|, short mirrored, stop being the stop
\* at the call); in every other call, and in every state other than
\* IN_POSITION, the stop and the rest of the state machine are unchanged.
C17_TrailingOnlyTightens ==
    [][last'.op = "update_trailing_stop" =>
          LET s == last'.symbol
              price == last'.closed[1].current_price
          IN  IF StopOf(sg', s) = StopOf(sg, s)
              THEN sg' = sg
              ELSE LET pos == sg.position_info[s]
                       old == pos.stop_loss
                       new == sg'.position_info[s].stop_loss
                   IN  /\ GetState(sg, s) = "IN_POSITION"
                       /\ sg' = [sg EXCEPT !.position_info[s].stop_loss = new]
                       /\ IF pos.type = "LONG"
                          THEN new > old /\ price >= pos.entry_price + Abs(pos.entry_price - old)
                          ELSE new < old /\ price <= pos.entry_price - Abs(pos.entry_price - old)]_vars

\* C17's case: the stop of a short has just been moved, to the profit side of
\* its entry
C17_TrailedPastEntry ==
    /\ last.op = "update_trailing_stop"
    /\ last.status = "moved"
    /\ ScenarioSymbol \in DOMAIN sg.position_info
    /\ sg.position_info[ScenarioSymbol].type = "SHORT"
    /\ sg.position_info[ScenarioSymbol].stop_loss < sg.position_info[ScenarioSymbol].entry_price

\* C18: for capital > 0, entry > 0 and any stop, calculate_position_size returns
\* risk_amount <= capital x max_risk_per_trade and size_quote <= capital x
\* max_risk_total, within rounding; when the uncapped notional (capital x
\* max_risk_per_trade x entry / stop distance) exceeds the cap, size_quote is
\* capital x max_risk_total and size is size_quote / entry; capital 10000, entry
\* 100, stop 98 gives size 6 and size_quote 600.
C18_SizeWithinCaps ==
    last.op = "calculate_position_size" =>
        LET a == last.args
            r == last.result
            distance == IF a.stop_loss = a.entry_price THEN a.entry_price \div 50
                        ELSE Abs(a.entry_price - a.stop_loss)
            cap == MulPpm(a.capital, MaxRiskTotal)
        IN  /\ r.risk_amount <= MulPpm(a.capital, MaxRiskPerTrade) + 50
            /\ r.size_quote <= cap + 50
            /\ r.size > 0
            /\ MaxRiskPerTrade * a.entry_price > MaxRiskTotal * distance
                  => /\ r.size_quote = Round2(cap)
                     /\ r.size = RoundDiv(cap * 10, a.entry_price)
            /\ (a.capital = InitialCapital /\ a.entry_price = 10000 /\ a.stop_loss = 9800)
                  => r.size = 6000 /\ r.size_quote = 6000000

\* C18's case: capital 10000, entry 100, stop 98, where the uncapped size 50 is
\* cut to 6
C18_CappedExample ==
    /\ last.op = "calculate_position_size"
    /\ last.args = [capital |-> InitialCapital, entry_price |-> 10000, stop_loss |-> 9800]
    /\ last.result.size = 6000
    /\ last.result.size_quote = 6000000

\* C19: calculate_kelly_criterion returns full_kelly = (p*b - q)/b clamped to
\* [0, 1] (0 when b <= 0) and recommended = min(kelly_fraction x full_kelly,
\* max_risk_per_trade), kelly_fraction being the configured fraction; win_rate
\* 0.5 and ratio 2.0 give full 0.25, quarter 0.0625 and recommended 0.01.
C19_KellyRecommended ==
    last.op = "calculate_kelly_criterion" =>
        LET self == last.args.self
            r == last.result
            p == r.win_rate
            b == r.avg_win_loss_ratio
            full == IF b > 0
                    THEN Max(0, Min(1000000, Ratio(p * b - (1000 - p) * 1000, b * 1000)))
                    ELSE 0
        IN  /\ r.full_kelly = Round2(full)
            /\ r.recommended = Round2(Min(MulMille(full, self.kelly_fraction),
                                          self.max_risk_per_trade))
            /\ (p = 500 /\ b = 2000 /\ self.kelly_fraction = 250)
                  => /\ r.full_kelly = 250000
                     /\ r.quarter_kelly = 62500
                     /\ r.recommended = 10000

\* the symbols a tick prices, and the price it gives one of them
PricedSymbols(items) == {items[i][1] : i \in 1..Len(items)}
PriceOf(items, symbol) == items[CHOOSE i \in 1..Len(items) : items[i][1] = symbol][2]

\* the tick's return lists position id as closed for the reason given
ClosedFor(closed, id, reason) ==
    \E i \in 1..Len(closed) : closed[i].id = id /\ closed[i].close_reason = reason

\* what the stop or the target of a position is hit by at a price
StopHit(pos, price) ==
    IF pos.direction = "long" THEN price <= pos.stop_loss ELSE price >= pos.stop_loss
TargetHit(pos, price) ==
    IF pos.direction = "long" THEN price >= pos.take_profit ELSE price <= pos.take_profit

TickEvaluated(items) ==
    /\ \A id \in DOMAIN portfolio.positions :
          LET pos == portfolio.positions[id]
          IN  IF pos.symbol \notin PricedSymbols(items)
              THEN /\ id \in DOMAIN portfolio'.positions
                   /\ portfolio'.positions[id] = pos
                   /\ \A i \in 1..Len(last'.closed) : last'.closed[i].id # id
              ELSE LET price == PriceOf(items, pos.symbol)
                   IN  /\ ClosedFor(last'.closed, id, "stop_loss") <=> StopHit(pos, price)
                       /\ ClosedFor(last'.closed, id, "take_profit")
                             <=> (TargetHit(pos, price) /\ ~StopHit(pos, price))
                       /\ id \in DOMAIN portfolio'.positions
                             <=> ~(StopHit(pos, price) \/ TargetHit(pos, price))
    /\ \A id \in DOMAIN portfolio'.positions :
          LET pos == portfolio'.positions[id]
          IN  pos.symbol \in PricedSymbols(items)
                 => /\ pos.current_price = PriceOf(items, pos.symbol)
                    /\ ~StopHit(pos, pos.current_price)
                    /\ ~TargetHit(pos, pos.current_price)

\* C20: update_prices evaluates every open position on a priced symbol on its own:
\* a long is closed as stop_loss iff price <= stop_loss and as take_profit iff
\* price >= take_profit with the stop not hit, a short with the inequalities
\* reversed; positions on other symbols are neither closed nor re-priced; no
\* position left open on a priced symbol has its stop or target reached.
C20_TickEvaluatesEach ==
    [][\A items \in PriceItems : UpdatePrices(items) => TickEvaluated(items)]_vars

\* C20's case: one tick pricing both symbols closes a long at its target and a
\* short at its stop
C20_TargetAndStopInOneTick ==
    /\ last.op = "update_prices"
    /\ Len(last.closed) = 2
    /\ \E i, j \in 1..2 : /\ last.closed[i].close_reason = "take_profit"
                          /\ last.closed[j].close_reason = "stop_loss"

\* the entry fee execute_signal reports for the position a closed trade records
EntryFeeOf(trade) == Round2(MulPpm(Notional(trade.entry_price, trade.size), CommissionPercent))

\* C21: commission is charged each way: once the first position opened by
\* execute_signal has been closed by hand at the price it was quoted at, capital
\* is below the capital before the open by at least the entry fee reported plus
\* the exit fee recorded in the closed trade.
C21_CommissionEachWay ==
    (/\ last.op = "close_position_manual"
     /\ last.status = "closed"
     /\ Len(portfolio.closed_trades) = 1)
        => LET trade == portfolio.closed_trades[1]
           IN  portfolio.capital <= InitialCapital - (EntryFeeOf(trade) + trade.fees)

\* the unrounded score behind an emitted signal of a frame
ScoreOf(frame, type) ==
    CalculateSignalStrength(IF type = "LONG" THEN frame.long ELSE frame.short, frame.adx)

\* C22: every signal generate_all_signals or generate_signals_with_mtf emits has
\* 0 <= strength_score <= 100 and strength = strength_score / 100, whatever the
\* confirmations and bonuses, and is emitted only when its score is at least 50.
C22_StrengthIsScore ==
    last.op \in {"generate_all_signals", "generate_signals_with_mtf"} =>
        LET frame == IF last.op = "generate_all_signals" THEN last.args ELSE last.args.frame
        IN  \A i \in 1..Len(last.result) :
               LET signal == last.result[i]
               IN  /\ 0 <= signal.strength_score /\ signal.strength_score <= 100
                   /\ signal.strength = signal.strength_score
                   /\ ScoreOf(frame, signal.type) >= MinStrengthScore * 100

\* the symbols of a list of visits
RECURSIVE SymbolsOf(_)
SymbolsOf(visited) ==
    IF visited = <<>> THEN <<>> ELSE <<Head(visited).symbol>> \o SymbolsOf(Tail(visited))

\* C23: generate_all_signals returns an empty list when the frame has fewer than
\* 50 bars or when a step raises; in data_update_loop a failed fetch or signal
\* computation for one symbol leaves the remaining symbols to be processed in
\* the same cycle, and the loop is never left.
C23_FailuresContained ==
    /\ last.op = "generate_all_signals"
          => ((last.args.bars < MinBars \/ last.args.raises # None) => last.result = <<>>)
    /\ last.op \notin {"frame", "generate_all_signals"}
          => /\ last.op \in {"cycle", "symbol"}
             /\ SymbolsOf(last.visited) \o last.pending = LoopSymbols

\* C23's case: the fetch failed for the first symbol, the signal computation for
\* the second, which is broadcast with no signals
C23_SecondSymbolReached ==
    /\ last.op = "symbol"
    /\ Len(last.visited) = 2
    /\ last.visited[1].failed = "fetch"
    /\ last.visited[2].failed = "signals"
    /\ last.message # <<>>
    /\ last.message[1].signals = <<>>

\* C24: get_scaling_out_levels returns, for k = 1, 2, 3, the price entry + k x
\* |entry - stop| for a long and entry - k x |entry - stop| for a short, with
\* r_multiple k and exit fractions 0.33, 0.33, 0.34 that sum to 1; entry 100,
\* stop 98, long gives 102, 104, 106 and entry 100, stop 102, short gives 98,
\* 96, 94.
C24_ScalingLadder ==
    last.op = "get_scaling_out_levels" =>
        LET a == last.args
            levels == last.result
            distance == IF a.entry_price >= a.stop_loss THEN a.entry_price - a.stop_loss
                        ELSE a.stop_loss - a.entry_price
        IN  /\ Len(levels) = 3
            /\ \A k \in 1..3 :
                  /\ levels[k].price = IF a.direction = "long" THEN a.entry_price + k * distance
                                       ELSE a.entry_price - k * distance
                  /\ levels[k].r_multiple = k
            /\ <<levels[1].percent, levels[2].percent, levels[3].percent>>
                  = <<330000, 330000, 340000>>
            /\ levels[1].percent + levels[2].percent + levels[3].percent = 1000000
            /\ a = [entry_price |-> 10000, stop_loss |-> 9800, direction |-> "long"]
                  => <<levels[1].price, levels[2].price, levels[3].price>> = <<10200, 10400, 10600>>
            /\ a = [entry_price |-> 10000, stop_loss |-> 10200, direction |-> "short"]
                  => <<levels[1].price, levels[2].price, levels[3].price>> = <<9800, 9600, 9400>>

\* C24's case: the ladder of a short entered at 100 with its stop at 102
C24_ShortLadder ==
    /\ last.op = "get_scaling_out_levels"
    /\ last.args = [entry_price |-> 10000, stop_loss |-> 10200, direction |-> "short"]
    /\ last.result[3].price = 9400

\* the checks of the gate in the order claimed, each with whether it fails for
\* the RiskManager r at time t on the arguments a
GateChecks(r, t, a) ==
    <<[name |-> "pause", fails |-> r.pause_until # NoTime /\ t < r.pause_until],
      [name |-> "daily_loss",
       fails |-> r.daily_pnl < 0 /\ -r.daily_pnl > (a.capital \div 1000000) * DailyLossLimit],
      [name |-> "consecutive_losses", fails |-> r.consecutive_losses >= ConsecutiveLossPause],
      [name |-> "max_positions", fails |-> a.current_positions >= MaxOpenPositions],
      [name |-> "max_exposure", fails |-> a.current_exposure >= MaxRiskTotal],
      [name |-> "spread", fails |-> a.spread_percent > MaxSpread]>>

C26_CombinedIsSmallest ==
    (last.op = "calculate_position_size_advanced" /\ last.args.method = "combined") =>
        LET a == last.args
            res == last.result
            distance == StopDistance(a.entry_price, a.stop_loss)
            smallest == MinOf({FixedSize(a.capital, distance),
                               KellySize(a.self, a.capital, distance),
                               VarSize(a.self, a.capital, a.entry_price)})
            cap == MulPpm(a.capital, MaxRiskTotal)
        IN  /\ IF Notional(a.entry_price, smallest) <= cap
               THEN res.size = smallest
               ELSE res.size = RoundDiv(cap * 10, a.entry_price)
            /\ res.size_quote <= cap + 50
            /\ res.risk_percent = Round2(Ratio(Notional(distance, res.size), a.capital))

\* C27: after every close_position, peak_equity is the larger of the peak before
\* and the ledger equity after the close, current_drawdown is (peak_equity -
\* get_equity()) / peak_equity for the equity once the closed position is out of
\* the open map, its P&L counted once as realized capital, and stats.max_drawdown
\* is the largest current_drawdown so far.
C27_DrawdownFromEquity ==
    [][(Len(last'.closed) = 1 /\ Len(portfolio'.closed_trades) = Len(portfolio.closed_trades) + 1) =>
          LET equity == GetEquity(portfolio')
              peak == Max(portfolio.peak_equity, equity)
          IN  /\ portfolio'.peak_equity = peak
              /\ portfolio'.current_drawdown = Ratio(peak - equity, peak)
              /\ portfolio'.stats.max_drawdown
                    = Max(portfolio.stats.max_drawdown, portfolio'.current_drawdown)]_vars

\* the replies that report an opened position, and the ids the replies report
\* as closed
ExecutedReplies == {i \in 1..Len(last.replies) : last.replies[i].status = "executed"}
ClosingsOf(id) ==
    {<<i, j>> \in (1..Len(last.replies)) \X (1..MaxOpenPositions) :
        /\ j <= Len(last.replies[i].closed)
        /\ last.replies[i].closed[j].id = id}

\* C28: under any interleaving of concurrent requests the ledger has a single
\* owner: two execute_signal requests in flight together cannot both pass the
\* position-count gate for the last free slot, so the book never exceeds its
\* limit and every executed reply names a position of its own, and two closes of
\* the same position produce exactly one closed trade.
C28_SingleOwner ==
    /\ Cardinality(DOMAIN portfolio.positions) <= MaxOpenPositions
    /\ \A i, j \in ExecutedReplies : i # j => last.replies[i].id # last.replies[j].id
    /\ \A i \in ExecutedReplies :
          last.replies[i].open_before < MaxOpenPositions
    /\ Cardinality(ExecutedReplies) = Cardinality(DOMAIN portfolio.positions)
                                      + Len(portfolio.closed_trades)
    /\ \A id \in 1..MaxRequests :
          /\ Cardinality(ClosingsOf(id)) <= 1
          /\ Cardinality(ClosingsOf(id))
                = Cardinality({k \in 1..Len(portfolio.closed_trades) :
                                  portfolio.closed_trades[k].id = id})

\* C28's case: two executes in flight together for the last free slot, the
\* first one served taking it and the other rejected by the position-count gate
C28_LastSlotContended ==
    \E i, j \in 1..Len(last.replies) :
        /\ i < j
        /\ last.replies[i].kind = "execute" /\ last.replies[j].kind = "execute"
        /\ last.replies[j].number \in last.replies[i].overlapped
        /\ last.replies[i].status = "executed"
        /\ last.replies[i].open_before = MaxOpenPositions - 1
        /\ last.replies[j].reason = "max_positions"

\* C29: after any sequence of arm_signal, confirm_and_enter, cancel_armed_signal,
\* exit_position and update_cooldown calls on any symbols, a symbol has an entry
\* in armed_signals exactly when its state is ARMED, so the armed_signals count
\* of get_state_summary is the number of symbols in state ARMED.
C29_ArmedIffEntry ==
    /\ \A symbol \in Symbols :
          symbol \in DOMAIN sg.armed_signals <=> GetState(sg, symbol) = "ARMED"
    /\ GetStateSummary(sg).armed_signals
          = Cardinality({symbol \in Symbols : GetState(sg, symbol) = "ARMED"})

\* C29's case: confirm_and_enter has just taken one symbol out of ARMED while
\* another symbol stays armed, and the summary counts one armed signal
C29_OneConfirmedOneArmed ==
    /\ last.op = "confirm_and_enter"
    /\ last.status = "entered"
    /\ GetState(sg, last.symbol) = "IN_POSITION"
    /\ \E other \in Symbols \ {last.symbol} : GetState(sg, other) = "ARMED"
    /\ GetStateSummary(sg).armed_signals = 1

\* C30: a position is never closed at a price that did not come from a
\* successful ticker fetch: when fetch_ticker fails for a symbol and returns its
\* default record, the close-all route closes none of that symbol's positions.
C30_NoCloseWithoutTicker ==
    [][\A responses \in [Symbols -> TickerResponses] :
          CloseAllRoute(responses) =>
             \A i \in 1..Len(last'.closed) :
                responses[portfolio.positions[last'.closed[i].id].symbol].ok]_vars

====
